---- MODULE Spec2Model ----
(***************************************************************************)
(* Model of extended-gtasks-mcp: the retry wrapper around upstream calls   *)
(* (utils.ts withRetry / isRetryable), the process-wide credential state   *)
(* (initializeAuth), the tool-call handler built by createServer, the      *)
(* session tables of the two HTTP transport bindings, and the operations   *)
(* of Tasks.ts (resolveTaskListId, TaskActions) against the upstream task  *)
(* service.                                                                *)
(*                                                                         *)
(* JavaScript values are written as strings: the number 401 is "401", an   *)
(* absent property (undefined) is Absent.  A string-valued property that   *)
(* happens to spell a number does not occur in the value sets below.       *)
(***************************************************************************)
EXTENDS Integers, Sequences, FiniteSets, TLC

VARIABLES
    \* ---- one withRetry(fn, retries, delayMs) call -----------------------
    rPc,            \* "idle" | "calling" | "waiting" | "returned" | "thrown"
    rBudget,        \* the retries argument of the outermost call
    rDelay0,        \* the delayMs argument of the outermost call
    rRetries,       \* retries of the current (innermost) activation
    rDelayMs,       \* delayMs of the current (innermost) activation
    rCalls,         \* number of invocations of fn so far
    rWaits,         \* the backoff delays waited so far, in order
    rFirstErr,      \* value thrown by the first invocation of fn
    rLastErr,       \* value thrown by the latest invocation of fn
    rLastVal,       \* value returned by the latest invocation of fn
    rOutcome,       \* what withRetry returned or threw to its caller
    rClassified     \* what isRetryable answered for rLastErr, when it was asked

retryVars == <<rPc, rBudget, rDelay0, rRetries, rDelayMs, rCalls, rWaits,
               rFirstErr, rLastErr, rLastVal, rOutcome, rClassified>>

VARIABLES
    \* ---- process-wide credential state (index.ts) -----------------------
    credSource,         \* which credential source the process finds
    oauth2Client,       \* the credential object installed (0: null)
    tasks,              \* the credential object the tasks client is bound to (0: null)
    isAuthenticated,
    credExchange,       \* per credential object: state of its token exchange
    nCreds,             \* credential objects constructed so far
    \* ---- startup ---------------------------------------------------------
    phase,              \* "starting" | "prewarming" | "listening"
    \* ---- session multiplexer ---------------------------------------------
    sseTransports,          \* session id -> transport
    streamableTransports,   \* session id -> transport
    totalConnections,
    activeSessionCount,
    transports,         \* every transport constructed: kind, sessionId, open
    serverConn,         \* per Server instance: the transports it was connected to
    nServers,           \* Server instances constructed so far
    lastResp,           \* the latest HTTP response sent
    \* ---- tool calls in progress ------------------------------------------
    calls

authVars == <<credSource, oauth2Client, tasks, isAuthenticated, credExchange, nCreds>>
sessionVars == <<sseTransports, streamableTransports, totalConnections,
                 activeSessionCount, transports, serverConn, nServers>>
serverVars == <<authVars, phase, sessionVars, lastResp, calls>>

VARIABLES
    \* ---- the upstream task service and one tool operation ----------------
    upLists,    \* upstream: the collections, in the order tasklists.list returns them
    upTasks,    \* upstream: the tasks
    nTaskIds,   \* task ids upstream has issued
    op,         \* the tool operation in progress
    sent,       \* the upstream requests the operation has made, in order
    other       \* a second operation in progress, suspended: its op and sent

taskVars == <<upLists, upTasks, nTaskIds, op, sent, other>>

vars == <<retryVars, serverVars, taskVars>>

----------------------------------------------------------------------------
(* Bounds of the model *)

MaxRetries == 2
MaxTransports == 2
MaxCalls == 2
MaxCreds == 3
MaxLists == 2
MaxTasks == 2
MaxNoteTokens == 2
MaxNotesLen == 12

----------------------------------------------------------------------------
(* Values *)

Absent == "undefined"

\* Default arguments of withRetry
DefaultRetries == 1
DefaultDelayMs == 1000

\* error.response.status of the values fn may throw
ResponseStatuses == {Absent, "400", "401", "403", "404", "429", "500", "502", "503"}
\* error.code of the values fn may throw
ErrorCodes == {Absent, "401", "404", "500", "ECONNRESET", "ETIMEDOUT", "ENOTFOUND"}

\* A thrown value: an object with optional response.status and code, a
\* primitive (property reads give undefined), or null / undefined.
ErrorObject(rs, c) == [kind |-> "object", rstatus |-> rs, code |-> c, name |-> "Error"]
ThrownNull == [kind |-> "null", rstatus |-> Absent, code |-> Absent, name |-> "null"]
ThrownUndefined == [kind |-> "undefined", rstatus |-> Absent, code |-> Absent, name |-> "undefined"]
ThrownString == [kind |-> "primitive", rstatus |-> Absent, code |-> Absent, name |-> "string"]
\* The TypeError raised by reading a property of null or undefined
TypeErrorValue == [kind |-> "object", rstatus |-> Absent, code |-> Absent, name |-> "TypeError"]

ThrownValues ==
    {ErrorObject(rs, c) : rs \in ResponseStatuses, c \in ErrorCodes}
        \cup {ThrownNull, ThrownUndefined, ThrownString}

NoError == [kind |-> "none", rstatus |-> Absent, code |-> Absent, name |-> "none"]

ReturnValues == {"v1", "v2"}
NoValue == "none"

RetryBudgets == -1 .. MaxRetries
DelayArgs == {DefaultDelayMs, 250}

----------------------------------------------------------------------------
(* isRetryable, utils.ts 24-32 *)

IsNullish(error) == error.kind \in {"null", "undefined"}

\* const status = error?.response?.status || error?.code;
StatusOf(error) ==
    IF error.rstatus # Absent THEN error.rstatus ELSE error.code

RetryableStatuses == {"401", "429", "500", "503"}

\* error.code is read without ?. : on null / undefined the read throws,
\* unless the status test before it already answered true.
isRetryableThrows(error) ==
    /\ StatusOf(error) \notin RetryableStatuses
    /\ IsNullish(error)

isRetryable_With502(error) ==
    \/ StatusOf(error) \in RetryableStatuses \cup {"502"}
    \/ error.code = "ECONNRESET"
    \/ error.code = "ETIMEDOUT"

isRetryable(error) ==
    \/ StatusOf(error) \in RetryableStatuses
    \/ error.code = "ECONNRESET"
    \/ error.code = "ETIMEDOUT"

----------------------------------------------------------------------------
(* withRetry, utils.ts 5-22 *)

\* withRetry(fn, retries - 1, delayMs * 2)
NextRetries_Kept(retries) == retries

NextRetries(retries) == retries - 1

NextDelayMs_Constant(delayMs) == delayMs

NextDelayMs(delayMs) == delayMs * 2

\* The catch block: "retry", "rethrow", or "typeerror" when isRetryable throws
CatchDecision(retries, error) ==
    IF retries > 0
    THEN IF isRetryableThrows(error) THEN "typeerror"
         ELSE IF isRetryable(error) THEN "retry" ELSE "rethrow"
    ELSE "rethrow"

\* The answer of isRetryable(error) in the catch block; retries > 0 && ...
\* does not ask when the budget is used up.
Classification(retries, error) ==
    IF retries > 0
    THEN IF isRetryableThrows(error) THEN "throws"
         ELSE IF isRetryable(error) THEN "retryable" ELSE "non-retryable"
    ELSE "not asked"

\* What leaves withRetry when the catch block does not retry
Propagated_Original(retries, error) ==
    IF rCalls = 0 THEN error ELSE rFirstErr

Propagated(retries, error) ==
    IF CatchDecision(retries, error) = "typeerror" THEN TypeErrorValue ELSE error

RetryInit ==
    /\ rPc = "idle"
    /\ rBudget = DefaultRetries
    /\ rDelay0 = DefaultDelayMs
    /\ rRetries = DefaultRetries
    /\ rDelayMs = DefaultDelayMs
    /\ rCalls = 0
    /\ rWaits = <<>>
    /\ rFirstErr = NoError
    /\ rLastErr = NoError
    /\ rLastVal = NoValue
    /\ rOutcome = [kind |-> "pending", value |-> NoValue, error |-> NoError]
    /\ rClassified = "not asked"

\* A caller enters withRetry(fn, retries, delayMs)
WithRetry(retries, delayMs) ==
    /\ rPc = "idle"
    /\ rPc' = "calling"
    /\ rBudget' = retries
    /\ rDelay0' = delayMs
    /\ rRetries' = retries
    /\ rDelayMs' = delayMs
    /\ UNCHANGED <<rCalls, rWaits, rFirstErr, rLastErr, rLastVal, rOutcome,
                   rClassified>>

\* return await fn();  -- fn resolves with value v
FnResolves(v) ==
    /\ rPc = "calling"
    /\ rCalls' = rCalls + 1
    /\ rLastVal' = v
    /\ rOutcome' = [kind |-> "returned", value |-> v, error |-> NoError]
    /\ rPc' = "returned"
    /\ UNCHANGED <<rBudget, rDelay0, rRetries, rDelayMs, rWaits, rFirstErr, rLastErr,
                   rClassified>>

\* fn rejects with error: the catch block
FnRejects(error) ==
    /\ rPc = "calling"
    /\ rCalls' = rCalls + 1
    /\ rFirstErr' = IF rCalls = 0 THEN error ELSE rFirstErr
    /\ rLastErr' = error
    /\ rClassified' = Classification(rRetries, error)
    /\ IF CatchDecision(rRetries, error) = "retry"
       THEN /\ rPc' = "waiting"
            /\ UNCHANGED rOutcome
       ELSE /\ rPc' = "thrown"
            /\ rOutcome' = [kind |-> "thrown", value |-> NoValue,
                            error |-> Propagated(rRetries, error)]
    /\ UNCHANGED <<rBudget, rDelay0, rRetries, rDelayMs, rWaits, rLastVal>>

\* await setTimeout(delayMs); return withRetry(fn, retries - 1, delayMs * 2)
BackoffElapsed ==
    /\ rPc = "waiting"
    /\ rWaits' = Append(rWaits, rDelayMs)
    /\ rRetries' = NextRetries(rRetries)
    /\ rDelayMs' = NextDelayMs(rDelayMs)
    /\ rPc' = "calling"
    /\ UNCHANGED <<rBudget, rDelay0, rCalls, rFirstErr, rLastErr, rLastVal, rOutcome,
                   rClassified>>

----------------------------------------------------------------------------
(* Process-wide state of index.ts and its values *)

\* What initializeAuth finds: a source from which it constructs an
\* OAuth2Client (the environment triple, the local file or the package
\* file), a local file that cannot be parsed, or nothing
CredSources == {"found", "unreadableFile", "none"}
\* Sources from which an OAuth2Client is constructed
UsableSources == {"found"}

\* Session ids: randomUUID() values are distinct; the n-th transport draws the n-th
GenSid(n) == "uuid-" \o ToString(n)
\* Property names every plain object inherits from Object.prototype
PrototypeKeys == {"constructor"}
\* Session ids a client may send: issued ones, one never issued, an inherited key
ClientSids == {GenSid(n) : n \in 1 .. MaxTransports} \cup {"stale-id"} \cup PrototypeKeys

HttpMethods == {"GET", "POST", "DELETE"}
Payloads == {"initialize", "tools/call", "other"}

\* TOOL_DEFINITIONS, index.ts 755-970
TOOL_DEFINITIONS ==
    {"search", "list", "create", "clear", "delete", "update", "list_task_lists",
     "create_task_list", "filter_by_tag", "server_info"}
\* The names the CallTool handler passes on to TaskActions, index.ts 1112-1158
DispatchedTools ==
    {"search", "list", "create", "update", "delete", "clear", "list_task_lists",
     "create_task_list", "filter_by_tag"}
\* Tool names a client calls: the diagnostic, a dispatched operation, a
\* name the handler does not dispatch, and an unknown name
RequestedTools == {"server_info", "list", "add_tag", "no_such_tool"}

\* Errors an upstream call leaves withRetry with
UpstreamFailures == {ErrorObject("401", Absent), ErrorObject("404", Absent)}
\* throw new Error(`Tool not found: ${toolName}`)
ToolNotFound == [kind |-> "object", rstatus |-> Absent, code |-> Absent, name |-> "Tool not found"]

\* An HTTP response: error responses by status and message, every 2xx
\* response as Success; a handler that throws sends none, and lastResp
\* holds the exception
Success == "2xx"

Result(isErr, text) == [isError |-> isErr, text |-> text]
NoResult == Result(FALSE, "none")
AuthRequired == Result(TRUE, "Authentication required")

FreeCall == [pc |-> "free", server |-> 0, tool |-> "none", cred |-> 0,
             result |-> NoResult, error |-> NoError]
CallIds == 1 .. MaxCalls

\* Record<string, Transport> = {} : tables as functions on the ids they hold
EmptyTable == [k \in {} |-> 0]
Put_Dropped(table, k, v) == table

Put(table, k, v) == [x \in DOMAIN table \cup {k} |-> IF x = k THEN v ELSE table[x]]
\* delete table[k]
RemoveSession_All(table, k) == EmptyTable

RemoveSession(table, k) == [x \in DOMAIN table \ {k} |-> table[x]]
\* table[k] as a condition: an own entry, or a property inherited from
\* Object.prototype (which is no transport)
Truthy(table, k) == k \in DOMAIN table \/ k \in PrototypeKeys
IsInherited(table, k) == k \notin DOMAIN table /\ k \in PrototypeKeys

ServerInit ==
    /\ credSource \in CredSources
    /\ oauth2Client = 0
    /\ tasks = 0
    /\ isAuthenticated = FALSE
    /\ credExchange = [c \in 1 .. MaxCreds |-> "unused"]
    /\ nCreds = 0
    /\ phase = "starting"
    /\ sseTransports = EmptyTable
    /\ streamableTransports = EmptyTable
    /\ totalConnections = 0
    /\ activeSessionCount = 0
    /\ transports = <<>>
    /\ serverConn = [s \in 1 .. MaxTransports |-> {}]
    /\ nServers = 0
    /\ lastResp = "none"
    /\ calls = [c \in CallIds |-> FreeCall]

----------------------------------------------------------------------------
(* initializeAuth, index.ts 683-747 *)

\* The synchronous part, up to await oauth2Client.getAccessToken():
\* "true" (cached flag), "false" (no usable source), or "exchange"
AuthEntry ==
    IF isAuthenticated THEN "true"
    ELSE IF credSource \in UsableSources THEN "exchange"
    ELSE "false"

\* isAuthenticated after the synchronous part
FlagAtEntry_Early == IF AuthEntry = "exchange" THEN TRUE ELSE isAuthenticated

FlagAtEntry == isAuthenticated

\* The state left by the synchronous part: a new OAuth2Client is installed
\* when a source is found.
AuthEnterEffect ==
    /\ isAuthenticated' = FlagAtEntry
    /\ IF AuthEntry = "exchange"
       THEN /\ nCreds' = nCreds + 1
            /\ oauth2Client' = nCreds + 1
            /\ credExchange' = [credExchange EXCEPT ![nCreds + 1] = "pending"]
       ELSE UNCHANGED <<nCreds, oauth2Client, credExchange>>
    /\ UNCHANGED <<credSource, tasks>>

\* Room for one more credential object
CredRoom == AuthEntry = "exchange" => nCreds < MaxCreds

----------------------------------------------------------------------------
(* The CallTool handler of createServer, index.ts 1066-1178, and the          *)
(* try/catch of every TaskActions method, Tasks.ts                         *)

\* catch of the handler: error?.response?.status === 401 || error?.code === 401
CatchResetsAuth(error) == error.rstatus = "401" \/ error.code = "401"

\* catch of the handler: the result it returns
CatchResult_Rethrown(error) == NoResult

CatchResult(error) == Result(TRUE, "Error: " \o error.name)

\* catch of a TaskActions method: the failure is formatted and returned
TaskActionCaught(error) == Result(TRUE, "Error in operation: " \o error.name)

\* The handler once initializeAuth() answered true: dispatch by name. A
\* dispatched operation runs to its first upstream call; any other name
\* throws Tool not found into the handler's catch.
Dispatched(call) ==
    IF call.tool \in DispatchedTools
    THEN [call EXCEPT !.pc = "upstream"]
    ELSE [call EXCEPT !.pc = "done", !.result = CatchResult(ToolNotFound),
                      !.error = ToolNotFound]

FlagAfterDispatch(tool, flag) ==
    IF tool \notin DispatchedTools /\ CatchResetsAuth(ToolNotFound) THEN FALSE ELSE flag

\* A tools/call request reaches the handler of Server srv: the handler runs
\* to its first suspension. Slot c holds the call while it is in progress.
CallToolRequest(c, srv, tool) ==
    /\ calls[c].pc = "free"
    /\ \A d \in CallIds : d < c => calls[d].pc # "free"
    /\ LET call == [FreeCall EXCEPT !.server = srv, !.tool = tool] IN
       IF tool = "server_info"
       THEN /\ calls' = [calls EXCEPT ![c] =
                            [call EXCEPT !.pc = "done", !.result = Result(FALSE, "server info")]]
            /\ UNCHANGED authVars
       ELSE /\ CredRoom
            /\ CASE AuthEntry = "true" ->
                      /\ calls' = [calls EXCEPT ![c] = Dispatched(call)]
                      /\ isAuthenticated' = FlagAfterDispatch(tool, isAuthenticated)
                      /\ UNCHANGED <<credSource, oauth2Client, tasks, credExchange, nCreds>>
                 [] AuthEntry = "false" ->
                      /\ calls' = [calls EXCEPT ![c] =
                                      [call EXCEPT !.pc = "done", !.result = AuthRequired]]
                      /\ AuthEnterEffect
                 [] AuthEntry = "exchange" ->
                      /\ calls' = [calls EXCEPT ![c] =
                                      [call EXCEPT !.pc = "exchanging", !.cred = nCreds + 1]]
                      /\ AuthEnterEffect

\* await oauth2Client.getAccessToken() settles for the caller in slot c
ExchangeSettles(c, ok) ==
    /\ calls[c].pc = "exchanging"
    /\ credExchange' = [credExchange EXCEPT ![calls[c].cred] = IF ok THEN "ok" ELSE "failed"]
    /\ IF ok
       THEN /\ tasks' = oauth2Client
            /\ isAuthenticated' = FlagAfterDispatch(calls[c].tool, TRUE)
            /\ calls' = [calls EXCEPT ![c] = Dispatched(calls[c])]
       ELSE /\ calls' = [calls EXCEPT ![c] = [@ EXCEPT !.pc = "done", !.result = AuthRequired]]
            /\ UNCHANGED <<tasks, isAuthenticated>>
    /\ UNCHANGED <<credSource, oauth2Client, nCreds, phase, sessionVars, lastResp>>

\* The upstream call of a TaskActions method settles (through withRetry)
UpstreamSucceeds(c) ==
    /\ calls[c].pc = "upstream"
    /\ calls' = [calls EXCEPT ![c] = [@ EXCEPT !.pc = "done", !.result = Result(FALSE, "ok")]]
    /\ UNCHANGED <<authVars, phase, sessionVars, lastResp>>

UpstreamFails(c, error) ==
    /\ calls[c].pc = "upstream"
    /\ calls' = [calls EXCEPT ![c] =
                    [@ EXCEPT !.pc = "done", !.result = TaskActionCaught(error), !.error = error]]
    /\ UNCHANGED <<authVars, phase, sessionVars, lastResp>>

\* The operations that fetch tasks through TaskActions._list
ListingTools == {"list", "search", "filter_by_tag"}

\* A tasks.list call of TaskActions._list fails: the catch inside the loop
\* logs the error and the operation goes on with the tasks it has
UpstreamFailsInList(c, error) ==
    /\ calls[c].pc = "upstream"
    /\ calls[c].tool \in ListingTools
    /\ calls' = [calls EXCEPT ![c] =
                    [@ EXCEPT !.pc = "done", !.result = Result(FALSE, "ok"), !.error = error]]
    /\ UNCHANGED <<authVars, phase, sessionVars, lastResp>>

\* The handler's result is sent to the client
CallReturns(c) ==
    /\ calls[c].pc = "done"
    /\ calls' = [calls EXCEPT ![c] = FreeCall]
    /\ UNCHANGED <<authVars, phase, sessionVars, lastResp>>

----------------------------------------------------------------------------
(* initializeAndRunServer: pre-warm and listen, index.ts 1336-1349 *)

Prewarm_Listening ==
    /\ phase = "starting"
    /\ AuthEnterEffect
    /\ phase' = "listening"
    /\ UNCHANGED <<sessionVars, lastResp, calls>>

\* await initializeAuth() at startup, to its suspension or its answer
Prewarm ==
    /\ phase = "starting"
    /\ AuthEnterEffect
    /\ phase' = IF AuthEntry = "exchange" THEN "prewarming" ELSE "listening"
    /\ UNCHANGED <<sessionVars, lastResp, calls>>

\* The pre-warm exchange settles; app.listen follows either way
PrewarmSettles(ok) ==
    /\ phase = "prewarming"
    /\ credExchange' = [credExchange EXCEPT ![nCreds] = IF ok THEN "ok" ELSE "failed"]
    /\ IF ok
       THEN tasks' = oauth2Client /\ isAuthenticated' = TRUE
       ELSE UNCHANGED <<tasks, isAuthenticated>>
    /\ phase' = "listening"
    /\ UNCHANGED <<credSource, oauth2Client, nCreds, sessionVars, lastResp, calls>>

----------------------------------------------------------------------------
(* Session multiplexer, index.ts 1214-1334 *)

\* createServer(): a fresh Server instance
createServer_Reused == IF nServers = 0 THEN 1 ELSE nServers

createServer == nServers + 1

\* const server = createServer(); await server.connect(transport)
ConnectNewServer(t) ==
    LET server == createServer IN
    /\ nServers' = IF server > nServers THEN server ELSE nServers
    /\ serverConn' = [serverConn EXCEPT ![server] = @ \cup {t}]

ServerOf(t) == CHOOSE s \in 1 .. MaxTransports : t \in serverConn[s]

NewTransportId == Len(transports) + 1

\* app.all("/mcp"): the request is routed to an existing session
McpExisting(method, sessionId, payload, tool, c) ==
    /\ sessionId # Absent
    /\ Truthy(streamableTransports, sessionId)
    /\ IF IsInherited(streamableTransports, sessionId)
       THEN \* transport.handleRequest is not a function
            /\ lastResp' = "TypeError: transport.handleRequest is not a function"
            /\ UNCHANGED <<authVars, sessionVars, calls>>
       ELSE LET t == streamableTransports[sessionId] IN
            CASE method = "DELETE" ->
                   \* handleRequest closes the transport: transport.onclose
                   /\ streamableTransports' = RemoveSession(streamableTransports, transports[t].sessionId)
                   /\ activeSessionCount' = activeSessionCount - 1
                   /\ transports' = [transports EXCEPT ![t].open = FALSE]
                   /\ lastResp' = Success
                   /\ UNCHANGED <<authVars, sseTransports, totalConnections, serverConn,
                                  nServers, calls>>
              [] method = "GET" ->
                   /\ lastResp' = Success
                   /\ UNCHANGED <<authVars, sessionVars, calls>>
              [] method = "POST" /\ payload = "initialize" ->
                   /\ lastResp' = "400 Server already initialized"
                   /\ UNCHANGED <<authVars, sessionVars, calls>>
              [] method = "POST" /\ payload = "tools/call" ->
                   /\ CallToolRequest(c, ServerOf(t), tool)
                   /\ lastResp' = Success
                   /\ UNCHANGED sessionVars
              [] method = "POST" /\ payload = "other" ->
                   /\ lastResp' = Success
                   /\ UNCHANGED <<authVars, sessionVars, calls>>

\* app.all("/mcp"): a POST with an initialize payload opens a new session
McpNewSession(method, sessionId, payload, accepted) ==
    /\ ~(sessionId # Absent /\ Truthy(streamableTransports, sessionId))
    /\ method = "POST" /\ payload = "initialize"
    /\ Len(transports) < MaxTransports
    /\ LET t == NewTransportId
           sid == GenSid(t) IN
       /\ ConnectNewServer(t)
       /\ IF accepted
          THEN \* handleRequest initializes the session: onsessioninitialized(sid)
               /\ transports' = Append(transports,
                      [kind |-> "streamable", sessionId |-> sid, open |-> TRUE])
               /\ streamableTransports' = Put(streamableTransports, sid, t)
               /\ totalConnections' = totalConnections + 1
               /\ activeSessionCount' = activeSessionCount + 1
               /\ lastResp' = Success
          ELSE \* handleRequest rejects the request before a session id is drawn
               /\ transports' = Append(transports,
                      [kind |-> "streamable", sessionId |-> Absent, open |-> TRUE])
               /\ lastResp' = "400 rejected by transport"
               /\ UNCHANGED <<streamableTransports, totalConnections, activeSessionCount>>
    /\ UNCHANGED <<authVars, sseTransports, calls>>

\* app.all("/mcp"): a session id that is in no table entry
McpSessionNotFound(method, sessionId, payload) ==
    /\ ~(sessionId # Absent /\ Truthy(streamableTransports, sessionId))
    /\ ~(method = "POST" /\ payload = "initialize")
    /\ sessionId # Absent
    /\ lastResp' = "404 Session not found. It may have expired."
    /\ UNCHANGED <<authVars, sessionVars, calls>>

McpBadRequest_Counted(method, sessionId, payload) ==
    /\ ~(sessionId # Absent /\ Truthy(streamableTransports, sessionId))
    /\ ~(method = "POST" /\ payload = "initialize")
    /\ sessionId = Absent
    /\ lastResp' = "400 Bad Request: missing session ID or not an initialize request"
    /\ totalConnections' = totalConnections + 1
    /\ UNCHANGED <<authVars, sseTransports, streamableTransports, activeSessionCount,
                   transports, serverConn, nServers, calls>>

\* app.all("/mcp"): no session id and no initialize request
McpBadRequest(method, sessionId, payload) ==
    /\ ~(sessionId # Absent /\ Truthy(streamableTransports, sessionId))
    /\ ~(method = "POST" /\ payload = "initialize")
    /\ sessionId = Absent
    /\ lastResp' = "400 Bad Request: missing session ID or not an initialize request"
    /\ UNCHANGED <<authVars, sessionVars, calls>>

McpRequest(method, sessionId, payload, tool, accepted, c) ==
    /\ phase = "listening"
    /\ UNCHANGED phase
    /\ \/ McpExisting(method, sessionId, payload, tool, c)
       \/ McpNewSession(method, sessionId, payload, accepted)
       \/ McpSessionNotFound(method, sessionId, payload)
       \/ McpBadRequest(method, sessionId, payload)

\* app.get("/sse")
SseConnect ==
    /\ phase = "listening"
    /\ Len(transports) < MaxTransports
    /\ LET t == NewTransportId
           sid == GenSid(t) IN
       /\ transports' = Append(transports, [kind |-> "sse", sessionId |-> sid, open |-> TRUE])
       /\ sseTransports' = Put(sseTransports, sid, t)
       /\ totalConnections' = totalConnections + 1
       /\ activeSessionCount' = activeSessionCount + 1
       /\ ConnectNewServer(t)
    /\ lastResp' = Success
    /\ UNCHANGED <<authVars, phase, streamableTransports, calls>>

SseClose_Uncounted(t) ==
    /\ t \in 1 .. Len(transports)
    /\ transports[t].kind = "sse"
    /\ transports[t].open
    /\ transports' = [transports EXCEPT ![t].open = FALSE]
    /\ sseTransports' = RemoveSession(sseTransports, transports[t].sessionId)
    /\ UNCHANGED <<authVars, phase, streamableTransports, totalConnections,
                   activeSessionCount, serverConn, nServers, lastResp, calls>>

\* res.on("close") of an SSE connection
SseClose(t) ==
    /\ t \in 1 .. Len(transports)
    /\ transports[t].kind = "sse"
    /\ transports[t].open
    /\ transports' = [transports EXCEPT ![t].open = FALSE]
    /\ sseTransports' = RemoveSession(sseTransports, transports[t].sessionId)
    /\ activeSessionCount' = activeSessionCount - 1
    /\ UNCHANGED <<authVars, phase, streamableTransports, totalConnections, serverConn,
                   nServers, lastResp, calls>>

\* app.post("/message")
PostMessage(sessionId, payload, tool, c) ==
    /\ phase = "listening"
    /\ UNCHANGED phase
    /\ IF Truthy(sseTransports, sessionId)
       THEN IF IsInherited(sseTransports, sessionId)
            THEN \* transport.handlePostMessage is not a function
                 /\ lastResp' = "TypeError: transport.handlePostMessage is not a function"
                 /\ UNCHANGED <<authVars, sessionVars, calls>>
            ELSE IF payload = "tools/call"
                 THEN /\ CallToolRequest(c, ServerOf(sseTransports[sessionId]), tool)
                      /\ lastResp' = Success
                      /\ UNCHANGED sessionVars
                 ELSE /\ lastResp' = Success
                      /\ UNCHANGED <<authVars, sessionVars, calls>>
       ELSE /\ lastResp' = "404 Session not found"
            /\ UNCHANGED <<authVars, sessionVars, calls>>

Health_Counted ==
    /\ phase = "listening"
    /\ lastResp' = Success
    /\ totalConnections' = totalConnections + 1
    /\ UNCHANGED <<authVars, phase, sseTransports, streamableTransports, activeSessionCount,
                   transports, serverConn, nServers, calls>>

\* app.get("/health")
Health ==
    /\ phase = "listening"
    /\ lastResp' = Success
    /\ UNCHANGED <<authVars, phase, sessionVars, calls>>

\* The tool name matters to a tools/call payload only, the transport's
\* verdict to an initialize request only
ToolsOf(payload, tools) == IF payload = "tools/call" THEN tools ELSE {"none"}
VerdictsOf(method, payload) ==
    IF method = "POST" /\ payload = "initialize" THEN BOOLEAN ELSE {TRUE}

----------------------------------------------------------------------------
(* Tasks.ts: resolveTaskListId and the TaskActions operations.  Strings are *)
(* TLA+ strings; toLowerCase is tabulated over the strings that occur.      *)

Null == "null"

\* A value that is false as a JavaScript condition: !v
Falsy(v) == v \in {Absent, Null, ""}

\* Collection ids upstream issues
Id(n) == "L" \o ToString(n)
ListIds == {Id(n) : n \in 1 .. MaxLists}

\* String.prototype.toLowerCase
toLowerCase_Identity(s) == s

toLowerCase(s) ==
    IF \E n \in 1 .. MaxLists + 1 : s = Id(n)
    THEN "l" \o ToString(CHOOSE n \in 1 .. MaxLists + 1 : s = Id(n))
    ELSE CASE s = "Life" -> "life"
           [] s = "Home" -> "home"
           [] s = "HOME" -> "home"
           [] s = "Work" -> "work"
           [] s = "My Tasks" -> "my tasks"
           [] OTHER -> s

\* Titles a collection may carry (title is optional in Schema$TaskList)
ListTitles == {Absent, "Life", "Home", "l2"}
\* The taskListId argument of a tool call
Refs == {Absent, "", "@default", "home", "HOME", "Work"} \cup ListIds

\* Sequences of at most n collections with distinct ids
RECURSIVE ListsUpTo(_)
ListsUpTo(n) ==
    IF n = 0 THEN {<<>>}
    ELSE LET shorter == ListsUpTo(n - 1) IN
         shorter \cup
         {Append(ls, [id |-> i, title |-> t]) :
            ls \in {x \in shorter : Len(x) = n - 1}, i \in ListIds, t \in ListTitles}
DistinctIds(ls) == \A i \in 1 .. Len(ls), j \in 1 .. Len(ls) : i # j => ls[i].id # ls[j].id
AllLists == {ls \in ListsUpTo(MaxLists) : DistinctIds(ls)}

\* Array.prototype.find: the first of the indices that pass, 0 for none
FirstIndex(I) == IF I = {} THEN 0 ELSE CHOOSE i \in I : \A j \in I : i <= j

\* taskLists[0]
FirstList_Last(taskLists) == taskLists[Len(taskLists)]

FirstList(taskLists) == taskLists[1]

\* taskLists.find((list) => list.id === requestedTaskListId)
FindById(taskLists, requestedTaskListId) ==
    FirstIndex({i \in 1 .. Len(taskLists) : taskLists[i].id = requestedTaskListId})

\* taskLists.find((list) => list.title?.toLowerCase() === requestedTaskListId.toLowerCase())
FindByName(taskLists, requestedTaskListId) ==
    FirstIndex({i \in 1 .. Len(taskLists) :
                  /\ taskLists[i].title # Absent
                  /\ toLowerCase(taskLists[i].title) = toLowerCase(requestedTaskListId)})

\* foundTaskList: exact id first, then the name
FoundTaskList_NameFirst(taskLists, requestedTaskListId) ==
    IF FindByName(taskLists, requestedTaskListId) # 0
    THEN FindByName(taskLists, requestedTaskListId)
    ELSE FindById(taskLists, requestedTaskListId)

FoundTaskList(taskLists, requestedTaskListId) ==
    IF FindById(taskLists, requestedTaskListId) # 0
    THEN FindById(taskLists, requestedTaskListId)
    ELSE FindByName(taskLists, requestedTaskListId)

\* resolveTaskListId once tasklists.list has answered taskLists: it throws
\* (threw) or returns taskListId
resolveTaskListId_Strict(taskLists, requestedTaskListId) ==
    IF Len(taskLists) = 0 \/ (~Falsy(requestedTaskListId) /\ requestedTaskListId # "@default"
                               /\ FoundTaskList(taskLists, requestedTaskListId) = 0)
    THEN [threw |-> TRUE, taskListId |-> Absent]
    ELSE IF Falsy(requestedTaskListId) \/ requestedTaskListId = "@default"
    THEN [threw |-> FALSE, taskListId |-> FirstList(taskLists).id]
    ELSE [threw |-> FALSE,
          taskListId |-> taskLists[FoundTaskList(taskLists, requestedTaskListId)].id]

resolveTaskListId_Lenient(taskLists, requestedTaskListId) ==
    IF Len(taskLists) = 0
    THEN [threw |-> FALSE, taskListId |-> Id(1)]
    ELSE [threw |-> FALSE, taskListId |-> FirstList(taskLists).id]

resolveTaskListId(taskLists, requestedTaskListId) ==
    IF Len(taskLists) = 0
    THEN [threw |-> TRUE, taskListId |-> Absent]
    ELSE IF Falsy(requestedTaskListId) \/ requestedTaskListId = "@default"
    THEN [threw |-> FALSE, taskListId |-> FirstList(taskLists).id]
    ELSE LET found == FoundTaskList(taskLists, requestedTaskListId) IN
         [threw |-> FALSE,
          taskListId |-> IF found # 0 THEN taskLists[found].id ELSE FirstList(taskLists).id]

(* Text and regular expressions of the tag operations, Tasks.ts 982-987,   *)
(* 1061-1078, 1130-1145.  A text is the sequence of its characters; the     *)
(* empty sequence also stands for an absent notes or title property, which  *)
(* the code reads as (x || "").                                             *)

NL == "LF"      \* the line feed character
SP == " "
WhiteSpace == {NL, SP}

\* The letter a character is matched as under the i flag
LowerChar(c) == CASE c = "H" -> "h" [] c = "U" -> "u" [] c = "X" -> "x" [] OTHER -> c

\* The characters of a tag name
TagChars(tag) ==
    CASE tag = "h+" -> <<"h", "+">>
      [] tag = "Home" -> <<"H", "o", "m", "e">>
      [] OTHER -> <<tag>>

\* Tag names of the calls: a plain name in both cases, another name, and
\* names with characters that are special in a pattern
Tags == {"h", "H", "u", "h+", ".", "("}

\* `[${tag}]`
TagStr(tag) == <<"[">> \o TagChars(tag) \o <<"]">>

\* Pattern sources: the escapes written in the template, then the tag as is
EscOpen == "\\["
EscClose == "\\]"
SpaceStar == "\\s*"
\* `\\[${tag}\\]`
TestSource(tag) == <<EscOpen>> \o TagChars(tag) \o <<EscClose>>
\* `\\s*\\[${tag}\\]\\s*`
RemoveSource(tag) == <<SpaceStar, EscOpen>> \o TagChars(tag) \o <<EscClose, SpaceStar>>

\* One term of a pattern: what it matches and how many times (min .. 1, or
\* min .. any number when many)
Term(kind, ch, min, many) == [kind |-> kind, ch |-> ch, min |-> min, many |-> many]

\* new RegExp(source): the terms, or a SyntaxError (ok = FALSE)
RECURSIVE ParseFrom(_, _, _)
ParseFrom(source, k, terms) ==
    IF k > Len(source) THEN [ok |-> TRUE, terms |-> terms]
    ELSE LET c == source[k] IN
         CASE c = EscOpen -> ParseFrom(source, k + 1, Append(terms, Term("char", "[", 1, FALSE)))
           [] c = EscClose -> ParseFrom(source, k + 1, Append(terms, Term("char", "]", 1, FALSE)))
           [] c = SpaceStar -> ParseFrom(source, k + 1, Append(terms, Term("space", SP, 0, TRUE)))
           [] c = "." -> ParseFrom(source, k + 1, Append(terms, Term("any", ".", 1, FALSE)))
           [] c = "+" ->
                \* a quantifier: nothing to repeat after another quantifier
                IF Len(terms) = 0 \/ terms[Len(terms)].many
                THEN [ok |-> FALSE, terms |-> <<>>]
                ELSE ParseFrom(source, k + 1,
                               [terms EXCEPT ![Len(terms)] = [@ EXCEPT !.many = TRUE]])
           [] c = "(" -> [ok |-> FALSE, terms |-> <<>>]     \* unterminated group
           [] OTHER -> ParseFrom(source, k + 1, Append(terms, Term("char", c, 1, FALSE)))
RegExp(source) == ParseFrom(source, 1, <<>>)

TermMatches(term, c) ==
    CASE term.kind = "any" -> c # NL
      [] term.kind = "space" -> c \in WhiteSpace
      [] OTHER -> LowerChar(c) = LowerChar(term.ch)

\* How many characters from position i on match the term
RECURSIVE Run(_, _, _)
Run(term, s, i) ==
    IF i <= Len(s) /\ TermMatches(term, s[i]) THEN 1 + Run(term, s, i + 1) ELSE 0

Largest(S) == CHOOSE n \in S : \A m \in S : m <= n

\* The match of terms k.. at position i that backtracking finds first
\* (quantifiers are greedy): the position after it, or 0 for no match
RECURSIVE MatchEnd(_, _, _, _)
MatchEnd(terms, k, s, i) ==
    IF k > Len(terms) THEN i
    ELSE LET term == terms[k]
             run == Run(term, s, i)
             counts == IF term.many THEN term.min .. run
                       ELSE IF run >= 1 THEN {1} ELSE {}
             good == {n \in counts : MatchEnd(terms, k + 1, s, i + n) # 0} IN
         IF good = {} THEN 0 ELSE MatchEnd(terms, k + 1, s, i + Largest(good))

\* RegExp.prototype.test
Test(terms, s) == \E i \in 1 .. Len(s) : MatchEnd(terms, 1, s, i) # 0

\* String.prototype.replace with a g pattern, from position i on
RECURSIVE ReplaceFrom(_, _, _, _)
ReplaceFrom(terms, s, i, by) ==
    IF i > Len(s) THEN <<>>
    ELSE LET e == MatchEnd(terms, 1, s, i) IN
         IF e # 0 THEN by \o ReplaceFrom(terms, s, e, by)
         ELSE <<s[i]>> \o ReplaceFrom(terms, s, i + 1, by)

\* .replace(/^\n+|\n+$/g, "")
RECURSIVE StripLeading(_)
StripLeading(s) == IF Len(s) > 0 /\ s[1] = NL THEN StripLeading(Tail(s)) ELSE s
RECURSIVE StripTrailing(_)
StripTrailing(s) ==
    IF Len(s) > 0 /\ s[Len(s)] = NL THEN StripTrailing(SubSeq(s, 1, Len(s) - 1)) ELSE s
StripNewlines(s) == StripTrailing(StripLeading(s))

\* TaskActions.addTag from currentNotes on: it throws, or answers that the
\* tag exists (write = FALSE), or writes notes
AddTag(currentNotes, tag) ==
    LET tagPattern == RegExp(TestSource(tag)) IN
    IF ~tagPattern.ok THEN [threw |-> TRUE, write |-> FALSE, notes |-> currentNotes]
    ELSE IF Test(tagPattern.terms, currentNotes)
    THEN [threw |-> FALSE, write |-> FALSE, notes |-> currentNotes]
    ELSE [threw |-> FALSE, write |-> TRUE,
          notes |-> IF Len(currentNotes) > 0 THEN currentNotes \o <<NL>> \o TagStr(tag)
                    ELSE TagStr(tag)]

\* TaskActions.removeTag from currentNotes on
RemoveTag(currentNotes, tag) ==
    LET tagPattern == RegExp(RemoveSource(tag)) IN
    IF ~tagPattern.ok THEN [threw |-> TRUE, write |-> FALSE, notes |-> currentNotes]
    ELSE IF ~Test(tagPattern.terms, currentNotes)
    THEN [threw |-> FALSE, write |-> FALSE, notes |-> currentNotes]
    ELSE [threw |-> FALSE, write |-> TRUE,
          notes |-> StripNewlines(ReplaceFrom(tagPattern.terms, currentNotes, 1, <<NL>>))]

\* TaskActions.filterByTag: allTasks.filter(...), as the ids of the tasks kept
Matched(allTasks, tagPattern) ==
    LET kept == SelectSeq(allTasks,
                    LAMBDA task : \/ Test(tagPattern.terms, task.notes)
                                  \/ Test(tagPattern.terms, task.title)) IN
    [i \in 1 .. Len(kept) |-> kept[i].id]

\* Notes of the task the tag operations work on: the texts of at most n
\* tokens
NoteTokens ==
    {<<"x">>, <<"[", "h", "]">>, <<"[", "H", "]">>, <<"[", "u", "]">>,
     <<"[", "h", "+", "]">>, <<NL>>, <<SP>>}
RECURSIVE TokenNotes(_)
TokenNotes(n) ==
    IF n = 0 THEN {<<>>}
    ELSE LET shorter == TokenNotes(n - 1) IN
         shorter \cup {s \o t : s \in shorter, t \in NoteTokens}
\* "Buy milk\n[Home]\n[Urgent]", and notes that carry the tag twice
ScenarioNotes ==
    {<<"x", NL, "[", "H", "]", NL, "[", "u", "]">>,
     <<"x", NL, "[", "h", "]", NL, "[", "H", "]", NL, "x">>}
NotesInputs == TokenNotes(MaxNoteTokens) \cup ScenarioNotes

----------------------------------------------------------------------------
(* The TaskActions operations *)

\* request.params.arguments
NoArgs == [taskListId |-> Absent, id |-> Absent, title |-> Absent, notes |-> Absent,
           status |-> Absent, due |-> Absent, query |-> Absent, tag |-> Absent]

\* The operations of TaskActions the CallTool handler dispatches
TaskTools == DispatchedTools

\* Argument objects of the calls of each operation
ArgsOf(name) ==
    LET lists == {Absent, "Home"} IN
    CASE name = "create" ->
            {[NoArgs EXCEPT !.taskListId = l, !.title = t, !.notes = n] :
                l \in lists, t \in {Absent, "", "Call mom"}, n \in {Absent, "n1"}}
      [] name = "update" ->
            {[NoArgs EXCEPT !.taskListId = l, !.id = i, !.title = t, !.notes = n,
                            !.status = s, !.due = d] :
                l \in lists, i \in {Absent, "T1"}, t \in {Absent, "New title"},
                n \in {Absent, Null}, s \in {Absent, "completed"}, d \in {Absent, "2026-01-01"}}
      [] name = "delete" ->
            {[NoArgs EXCEPT !.taskListId = l, !.id = i] : l \in lists, i \in {Absent, "T1"}}
      [] name = "search" -> {[NoArgs EXCEPT !.query = q] : q \in {Absent, "milk"}}
      [] name = "create_task_list" -> {[NoArgs EXCEPT !.title = t] : t \in {Absent, "Work"}}
      [] name = "filter_by_tag" ->
            \* without a tag here; the calls with one are followed in SpecTags
            {[NoArgs EXCEPT !.taskListId = l, !.tag = t] : l \in lists, t \in {Absent, ""}}
      [] name \in {"list", "clear"} -> {[NoArgs EXCEPT !.taskListId = l] : l \in lists}
      [] OTHER -> {NoArgs}

\* An upstream request: the method and its parameters
EmptyBody == [k \in {} |-> Absent]
Request(api, tasklist, task, body) ==
    [api |-> api, tasklist |-> tasklist, task |-> task, body |-> body]
NoRequest == Request("none", Absent, Absent, EmptyBody)

IdleOp == [pc |-> "idle", name |-> "none", args |-> NoArgs, mode |-> "none",
           listId |-> Absent, todo |-> <<>>, got |-> <<>>, matched |-> <<>>,
           retries |-> 0, result |-> NoResult, failed |-> FALSE]

\* No second operation
NoOther == [op |-> IdleOp, sent |-> <<>>]

\* The state before any tool operation, with nothing upstream
TaskQuiet ==
    /\ upLists = <<>>
    /\ upTasks = <<>>
    /\ nTaskIds = 0
    /\ op = IdleOp
    /\ sent = <<>>
    /\ other = NoOther

\* An account with every collection list, without tasks
ResolveInit ==
    /\ upLists \in AllLists
    /\ upTasks = <<>>
    /\ nTaskIds = 0
    /\ op = IdleOp
    /\ sent = <<>>
    /\ other = NoOther

\* An account with no collection, with one, or with two; with one task in the
\* first collection when there is one
TaskInit ==
    /\ upLists \in {<<>>,
                    <<[id |-> Id(1), title |-> "Life"]>>,
                    <<[id |-> Id(1), title |-> "Life"], [id |-> Id(2), title |-> "Home"]>>}
    /\ upTasks = IF Len(upLists) = 0 THEN <<>>
                 ELSE <<[list |-> upLists[1].id, id |-> "T1", title |-> "Buy milk",
                         notes |-> "n0", status |-> "needsAction", due |-> Absent]>>
    /\ nTaskIds = Len(upTasks)
    /\ op = IdleOp
    /\ sent = <<>>
    /\ other = NoOther

\* An account with one collection and two tasks: the first with every notes
\* text, the second with a tag in its title and no notes
TagInit ==
    /\ upLists = <<[id |-> Id(1), title |-> "Life"]>>
    /\ \E notes \in NotesInputs :
          upTasks = <<[list |-> Id(1), id |-> "T1", title |-> <<"x">>, notes |-> notes,
                       status |-> "needsAction", due |-> Absent],
                      [list |-> Id(1), id |-> "T2", title |-> <<"x", SP, "[", "H", "]">>,
                       notes |-> <<>>, status |-> "needsAction", due |-> Absent]>>
    /\ nTaskIds = 2
    /\ op = IdleOp
    /\ sent = <<>>
    /\ other = NoOther

\* catch of a TaskActions method, or a validation answer of the handler
ErrorResult(message) == Result(TRUE, "Error: " \o message)
Ended(o, result) == [op |-> [o EXCEPT !.pc = "done", !.result = result], req |-> NoRequest]
\* await withRetry(() => ...): the call is made with the default budget
Calls(o, pc, req) == [op |-> [o EXCEPT !.pc = pc, !.retries = DefaultRetries], req |-> req]

\* TaskActions.update: the request body, with the fields that are not undefined
PatchBody_AllFields(args) == [k \in {"id", "title", "notes", "status", "due"} |-> args[k]]

PatchBody(args) ==
    LET keys == {"id"} \cup {k \in {"title", "notes", "status", "due"} : args[k] # Absent} IN
    [k \in keys |-> args[k]]

\* TaskActions.create: the request body
InsertBody(args) ==
    LET keys == {"title", "status"} \cup {k \in {"notes", "due"} : args[k] # Absent} IN
    [k \in keys |-> IF k = "status"
                    THEN (IF Falsy(args.status) THEN "needsAction" ELSE args.status)
                    ELSE args[k]]

\* Which use of tasklists.list an operation starts with: resolveTaskListId,
\* the list of all collections of _list, or the catalog of listTaskLists
ModeOf(name, args) ==
    IF name = "list_task_lists" THEN "catalog"
    ELSE IF name = "search" THEN "all"
    ELSE IF name \in {"list", "filter_by_tag"} /\ Falsy(args.taskListId) THEN "all"
    ELSE "resolve"

\* What follows _list: filterByTag builds its pattern, which may throw, and
\* filters; list and search answer with what _list returned
Listed(o) ==
    IF o.name = "filter_by_tag"
    THEN LET tagPattern == RegExp(TestSource(o.args.tag)) IN
         IF ~tagPattern.ok THEN Ended(o, ErrorResult("Invalid regular expression"))
         ELSE LET matched == Matched(o.got, tagPattern) IN
              Ended([o EXCEPT !.matched = matched],
                    Result(FALSE, IF Len(matched) = 0 THEN "No tasks found" ELSE "ok"))
    ELSE Ended(o, Result(FALSE, "ok"))

\* TaskActions._list: the loop over taskListIds
StartFetch(o, ids) ==
    IF Len(ids) = 0 THEN Listed(o)
    ELSE Calls([o EXCEPT !.todo = ids], "tasks.list",
               Request("tasks.list", ids[1], Absent, EmptyBody))

\* An operation once its collection is known (o.listId)
AfterResolve(o) ==
    CASE o.name = "create" ->
            IF Falsy(o.args.title) THEN Ended(o, ErrorResult("Task title is required"))
            ELSE Calls(o, "tasks.insert",
                       Request("tasks.insert", o.listId, Absent, InsertBody(o.args)))
      [] o.name = "update" ->
            IF Falsy(o.args.id) THEN Ended(o, ErrorResult("Task ID is required"))
            ELSE Calls(o, "tasks.patch",
                       Request("tasks.patch", o.listId, o.args.id, PatchBody(o.args)))
      [] o.name = "delete" ->
            IF Falsy(o.args.id) THEN Ended(o, ErrorResult("Task ID is required"))
            ELSE Calls(o, "tasks.delete",
                       Request("tasks.delete", o.listId, o.args.id, EmptyBody))
      [] o.name = "clear" ->
            Calls(o, "tasks.clear", Request("tasks.clear", o.listId, Absent, EmptyBody))
      [] o.name \in {"add_tag", "remove_tag"} ->
            Calls(o, "tasks.get", Request("tasks.get", o.listId, o.args.id, EmptyBody))
      [] OTHER -> StartFetch(o, <<o.listId>>)

\* The synchronous start of an operation, from the dispatch of the handler
Begin(name, args) ==
    LET o == [IdleOp EXCEPT !.name = name, !.args = args, !.mode = ModeOf(name, args)] IN
    CASE name = "search" /\ Falsy(args.query) ->
            Ended(o, ErrorResult("Search query is required"))
      [] name = "create_task_list" ->
            IF Falsy(args.title) THEN Ended(o, ErrorResult("title is required"))
            ELSE Calls(o, "tasklists.insert",
                       Request("tasklists.insert", Absent, Absent,
                               [k \in {"title"} |-> args.title]))
      [] name = "filter_by_tag" /\ Falsy(args.tag) ->
            Ended(o, ErrorResult("tag is required"))
      [] OTHER ->
            Calls(o, "tasklists.list", Request("tasklists.list", Absent, Absent, EmptyBody))

\* Room upstream for what the operation may insert
Room(name) ==
    /\ name = "create" => nTaskIds < MaxTasks /\ (Len(upLists) = 0 => MaxLists > 0)
    /\ name = "create_task_list" => Len(upLists) < MaxLists

Step(next) ==
    /\ op' = next.op
    /\ sent' = IF next.req = NoRequest THEN sent ELSE Append(sent, next.req)
    /\ UNCHANGED other

\* The CallTool handler dispatches an operation, which runs to its first
\* upstream call or to its answer
ToolDispatched(name, args) ==
    /\ op.pc = "idle"
    /\ Room(name)
    /\ Step(Begin(name, args))
    /\ UNCHANGED <<upLists, upTasks, nTaskIds>>

\* addTag or removeTag is called; the CallTool handler has no case for them
TagOperationCalled(name, args) ==
    /\ name \in {"add_tag", "remove_tag"}
    /\ op.pc = "idle"
    /\ Step(Begin(name, args))
    /\ UNCHANGED <<upLists, upTasks, nTaskIds>>

\* Upstream state
NewListId == Id(CHOOSE n \in 1 .. MaxLists : /\ \A i \in 1 .. Len(upLists) : upLists[i].id # Id(n)
                                             /\ \A m \in 1 .. n - 1 :
                                                   \E i \in 1 .. Len(upLists) : upLists[i].id = Id(m))
TasksOf(listId) == SelectSeq(upTasks, LAMBDA t : t.list = listId)
HasTask(listId, taskId) == \E i \in 1 .. Len(upTasks) : upTasks[i].list = listId /\ upTasks[i].id = taskId
\* PATCH: the fields of the body replace the task's, the others stay
Patched(task, body) == [k \in DOMAIN task |-> IF k \in DOMAIN body THEN body[k] ELSE task[k]]
Inserted(listId, body) ==
    [list |-> listId, id |-> "T" \o ToString(nTaskIds + 1), title |-> body["title"],
     notes |-> IF "notes" \in DOMAIN body THEN body["notes"] ELSE Absent,
     status |-> body["status"],
     due |-> IF "due" \in DOMAIN body THEN body["due"] ELSE Absent]

\* The error an upstream call leaves withRetry with
UpstreamError == "upstream request failed"
Failed(o) == Ended([o EXCEPT !.failed = TRUE], ErrorResult(UpstreamError))

\* The pending request can be served by upstream
Servable ==
    LET req == sent[Len(sent)] IN
    req.api \in {"tasks.get", "tasks.patch", "tasks.delete"} => HasTask(req.tasklist, req.task)

\* addTag and removeTag once tasks.get has answered with the task
AfterGet(o, existing) ==
    LET currentNotes == existing.notes
        r == IF o.name = "add_tag" THEN AddTag(currentNotes, o.args.tag)
             ELSE RemoveTag(currentNotes, o.args.tag) IN
    IF r.threw THEN Ended(o, ErrorResult("Invalid regular expression"))
    ELSE IF ~r.write
    THEN Ended(o, Result(FALSE, IF o.name = "add_tag" THEN "Tag already exists"
                                ELSE "Tag not found"))
    ELSE Calls(o, "tasks.patch",
               Request("tasks.patch", o.listId, o.args.id,
                       [k \in {"id", "notes"} |-> IF k = "id" THEN o.args.id ELSE r.notes]))

\* The upstream call the operation waits for ends, with withRetry's outcome:
\* the answer of upstream (ok), or the error it throws
UpstreamAnswers(ok) ==
    /\ op.pc \notin {"idle", "done"}
    /\ ok => Servable
    /\ LET req == sent[Len(sent)] IN
       CASE op.pc = "tasklists.list" ->
              /\ UNCHANGED <<upLists, upTasks, nTaskIds>>
              /\ IF ~ok THEN Step(Failed(op))
                 ELSE CASE op.mode = "catalog" -> Step(Ended(op, Result(FALSE, "ok")))
                        [] op.mode = "all" ->
                             Step(StartFetch(op, [i \in 1 .. Len(upLists) |-> upLists[i].id]))
                        [] OTHER ->
                             LET r == resolveTaskListId(upLists, op.args.taskListId) IN
                             IF r.threw
                             THEN IF op.name = "create"
                                  THEN Step(Calls(op, "tasklists.insert",
                                                  Request("tasklists.insert", Absent, Absent,
                                                          [k \in {"title"} |-> "My Tasks"])))
                                  ELSE Step(Ended(op, ErrorResult("No task lists found in your Google Tasks account")))
                             ELSE Step(AfterResolve([op EXCEPT !.listId = r.taskListId]))
         [] op.pc = "tasklists.insert" ->
              /\ UNCHANGED <<upTasks, nTaskIds>>
              /\ IF ~ok THEN Step(Failed(op)) /\ UNCHANGED upLists
                 ELSE /\ upLists' = Append(upLists, [id |-> NewListId, title |-> req.body["title"]])
                      /\ IF op.name = "create_task_list"
                         THEN Step(Ended(op, Result(FALSE, "ok")))
                         ELSE Step(AfterResolve([op EXCEPT !.listId = NewListId]))
         [] op.pc = "tasks.list" ->
              /\ UNCHANGED <<upLists, upTasks, nTaskIds>>
              /\ LET o == [op EXCEPT !.got = IF ok THEN @ \o TasksOf(req.tasklist) ELSE @,
                                     !.failed = @ \/ ~ok,
                                     !.todo = Tail(@)] IN
                 IF Len(o.todo) = 0 THEN Step(Listed(o))
                 ELSE Step(Calls(o, "tasks.list",
                                 Request("tasks.list", o.todo[1], Absent, EmptyBody)))
         [] op.pc = "tasks.get" ->
              /\ UNCHANGED <<upLists, upTasks, nTaskIds>>
              /\ IF ~ok THEN Step(Failed(op))
                 ELSE Step(AfterGet(op, CHOOSE t \in {upTasks[i] : i \in 1 .. Len(upTasks)} :
                                          t.list = req.tasklist /\ t.id = req.task))
         [] op.pc = "tasks.insert" ->
              /\ UNCHANGED upLists
              /\ IF ~ok THEN Step(Failed(op)) /\ UNCHANGED <<upTasks, nTaskIds>>
                 ELSE /\ upTasks' = Append(upTasks, Inserted(req.tasklist, req.body))
                      /\ nTaskIds' = nTaskIds + 1
                      /\ Step(Ended(op, Result(FALSE, "ok")))
         [] op.pc = "tasks.patch" ->
              /\ UNCHANGED <<upLists, nTaskIds>>
              /\ IF ~ok THEN Step(Failed(op)) /\ UNCHANGED upTasks
                 ELSE /\ upTasks' = [i \in 1 .. Len(upTasks) |->
                                       IF upTasks[i].list = req.tasklist /\ upTasks[i].id = req.task
                                       THEN Patched(upTasks[i], req.body) ELSE upTasks[i]]
                      /\ Step(Ended(op, Result(FALSE, "ok")))
         [] op.pc = "tasks.delete" ->
              /\ UNCHANGED <<upLists, nTaskIds>>
              /\ IF ~ok THEN Step(Failed(op)) /\ UNCHANGED upTasks
                 ELSE /\ upTasks' = SelectSeq(upTasks,
                                       LAMBDA t : ~(t.list = req.tasklist /\ t.id = req.task))
                      /\ Step(Ended(op, Result(FALSE, "ok")))
         [] op.pc = "tasks.clear" ->
              /\ UNCHANGED <<upLists, nTaskIds>>
              /\ IF ~ok THEN Step(Failed(op)) /\ UNCHANGED upTasks
                 ELSE /\ upTasks' = SelectSeq(upTasks,
                                       LAMBDA t : ~(t.list = req.tasklist /\ t.status = "completed"))
                      /\ Step(Ended(op, Result(FALSE, "ok")))

\* One attempt of the insert withRetry is making fails with a retryable
\* error (ETIMEDOUT, ECONNRESET, 500, 503) while budget is left: withRetry
\* waits and invokes fn again, which sends the request again. The error may
\* be reported after upstream has applied the insert (applied) or before.
InsertAttemptFails(applied) ==
    /\ op.pc \in {"tasks.insert", "tasklists.insert"}
    /\ op.retries > 0
    /\ LET req == sent[Len(sent)] IN
       /\ CASE applied /\ op.pc = "tasks.insert" ->
                 /\ nTaskIds + 1 < MaxTasks
                 /\ upTasks' = Append(upTasks, Inserted(req.tasklist, req.body))
                 /\ nTaskIds' = nTaskIds + 1
                 /\ UNCHANGED upLists
            [] applied /\ op.pc = "tasklists.insert" ->
                 /\ Len(upLists) + 1 < MaxLists
                 /\ upLists' = Append(upLists, [id |-> NewListId, title |-> req.body["title"]])
                 /\ UNCHANGED <<upTasks, nTaskIds>>
            [] OTHER -> UNCHANGED <<upLists, upTasks, nTaskIds>>
       /\ op' = [op EXCEPT !.retries = NextRetries(@)]
       /\ sent' = Append(sent, req)
    /\ UNCHANGED other

\* The operation's result goes back to the handler and on to the client
OperationReturns ==
    /\ op.pc = "done"
    /\ op' = IdleOp
    /\ sent' = <<>>
    /\ UNCHANGED <<upLists, upTasks, nTaskIds, other>>

\* The event loop turns to the other operation in progress: every await of
\* an operation lets the continuation of another one run. op and sent are
\* those of the operation whose continuation runs next.
OtherOperationTurn ==
    /\ op # other.op
    /\ op' = other.op
    /\ sent' = other.sent
    /\ other' = [op |-> op, sent |-> sent]
    /\ UNCHANGED <<upLists, upTasks, nTaskIds>>

----------------------------------------------------------------------------
(* Specifications *)

RetryNext ==
    \/ \E n \in RetryBudgets, d \in DelayArgs : WithRetry(n, d) /\ UNCHANGED <<serverVars, taskVars>>
    \/ \E v \in ReturnValues : FnResolves(v) /\ UNCHANGED <<serverVars, taskVars>>
    \/ \E e \in ThrownValues : FnRejects(e) /\ UNCHANGED <<serverVars, taskVars>>
    \/ BackoffElapsed /\ UNCHANGED <<serverVars, taskVars>>

\* Nothing of the server moves while one withRetry call is followed
ServerQuiet == ServerInit /\ credSource = "found"

\* One withRetry call with every budget, delay and behaviour of fn
InitRetry == RetryInit /\ ServerQuiet /\ TaskQuiet

SpecRetry == InitRetry /\ [][RetryNext]_vars

\* The same call when every invocation of fn terminates (it resolves or
\* rejects) and the timer of every backoff wait fires
FnSettles ==
    \/ \E v \in ReturnValues : FnResolves(v) /\ UNCHANGED <<serverVars, taskVars>>
    \/ \E e \in ThrownValues : FnRejects(e) /\ UNCHANGED <<serverVars, taskVars>>

SpecRetryFair ==
    /\ InitRetry /\ [][RetryNext]_vars
    /\ WF_vars(FnSettles)
    /\ WF_vars(BackoffElapsed /\ UNCHANGED <<serverVars, taskVars>>)

\* The session multiplexer: startup, both transport bindings with every
\* request a client may send. The tool a follow-up calls is the diagnostic
\* one, which is answered without authentication or upstream call; the other
\* tools are followed in SpecCalls.
SessionTools == {"server_info"}

Init == ServerInit /\ RetryInit /\ TaskQuiet

Next ==
    \/ Prewarm /\ UNCHANGED <<retryVars, taskVars>>
    \/ \E ok \in BOOLEAN : PrewarmSettles(ok) /\ UNCHANGED <<retryVars, taskVars>>
    \/ \E m \in HttpMethods, sid \in ClientSids \cup {Absent}, p \in Payloads :
          \E tool \in ToolsOf(p, SessionTools), accepted \in VerdictsOf(m, p) :
            McpRequest(m, sid, p, tool, accepted, 1) /\ UNCHANGED <<retryVars, taskVars>>
    \/ SseConnect /\ UNCHANGED <<retryVars, taskVars>>
    \/ \E t \in 1 .. MaxTransports : SseClose(t) /\ UNCHANGED <<retryVars, taskVars>>
    \/ \E sid \in ClientSids \cup {Absent}, p \in Payloads :
          \E tool \in ToolsOf(p, SessionTools) :
            PostMessage(sid, p, tool, 1) /\ UNCHANGED <<retryVars, taskVars>>
    \/ Health /\ UNCHANGED <<retryVars, taskVars>>
    \/ CallReturns(1) /\ UNCHANGED <<retryVars, taskVars>>

Spec == Init /\ [][Next]_vars

\* Tool calls and the credential state: one session, of either binding, on
\* which clients place concurrent tool calls of every kind, with every
\* outcome of the token exchange and of the upstream call
FirstSid == GenSid(1)

NextCalls ==
    \/ Prewarm /\ UNCHANGED <<retryVars, taskVars>>
    \/ \E ok \in BOOLEAN : PrewarmSettles(ok) /\ UNCHANGED <<retryVars, taskVars>>
    \/ Len(transports) = 0 /\ SseConnect /\ UNCHANGED <<retryVars, taskVars>>
    \/ /\ Len(transports) = 0
       /\ McpRequest("POST", Absent, "initialize", "none", TRUE, 1)
       /\ UNCHANGED <<retryVars, taskVars>>
    \/ \E tool \in RequestedTools, c \in CallIds :
          PostMessage(FirstSid, "tools/call", tool, c) /\ UNCHANGED <<retryVars, taskVars>>
    \/ \E tool \in RequestedTools, c \in CallIds :
          McpRequest("POST", FirstSid, "tools/call", tool, TRUE, c) /\ UNCHANGED <<retryVars, taskVars>>
    \/ \E c \in CallIds, ok \in BOOLEAN : ExchangeSettles(c, ok) /\ UNCHANGED <<retryVars, taskVars>>
    \/ \E c \in CallIds : UpstreamSucceeds(c) /\ UNCHANGED <<retryVars, taskVars>>
    \/ \E c \in CallIds, e \in UpstreamFailures : UpstreamFails(c, e) /\ UNCHANGED <<retryVars, taskVars>>
    \/ \E c \in CallIds, e \in UpstreamFailures :
          UpstreamFailsInList(c, e) /\ UNCHANGED <<retryVars, taskVars>>
    \/ \E c \in CallIds : CallReturns(c) /\ UNCHANGED <<retryVars, taskVars>>

SpecCalls == Init /\ [][NextCalls]_vars

\* Tool calls and the close of their session: the session and the calls of
\* SpecCalls, and the close of the session on either binding while calls are
\* in progress
NextClose ==
    \/ NextCalls
    \/ \E t \in 1 .. MaxTransports : SseClose(t) /\ UNCHANGED <<retryVars, taskVars>>
    \/ McpRequest("DELETE", FirstSid, "other", "none", TRUE, 1)
          /\ UNCHANGED <<retryVars, taskVars>>

SpecClose == Init /\ [][NextClose]_vars

\* The operations of TaskActions, one at a time, on an account with no, one
\* or two collections, with every outcome of every upstream call
InitTasks == RetryInit /\ ServerQuiet /\ TaskInit

NextTasks ==
    \/ \E name \in TaskTools : \E args \in ArgsOf(name) :
          ToolDispatched(name, args) /\ UNCHANGED <<retryVars, serverVars>>
    \/ \E ok \in BOOLEAN : UpstreamAnswers(ok) /\ UNCHANGED <<retryVars, serverVars>>
    \/ OperationReturns /\ UNCHANGED <<retryVars, serverVars>>

SpecTasks == InitTasks /\ [][NextTasks]_vars

\* One create call on an account as it is at the start, with every outcome
\* of every attempt of its upstream calls
NextCreate ==
    \/ \E args \in ArgsOf("create") :
          TaskInit /\ ToolDispatched("create", args) /\ UNCHANGED <<retryVars, serverVars>>
    \/ \E applied \in BOOLEAN :
          InsertAttemptFails(applied) /\ UNCHANGED <<retryVars, serverVars>>
    \/ \E ok \in BOOLEAN : UpstreamAnswers(ok) /\ UNCHANGED <<retryVars, serverVars>>
    \/ OperationReturns /\ UNCHANGED <<retryVars, serverVars>>

SpecCreate == InitTasks /\ [][NextCreate]_vars

\* resolveTaskListId on every collection list and every reference, as the
\* clear operation calls it
InitResolve == RetryInit /\ ServerQuiet /\ ResolveInit

NextResolve ==
    \/ \E ref \in Refs :
          ToolDispatched("clear", [NoArgs EXCEPT !.taskListId = ref])
            /\ UNCHANGED <<retryVars, serverVars>>
    \/ \E ok \in BOOLEAN : UpstreamAnswers(ok) /\ UNCHANGED <<retryVars, serverVars>>
    \/ OperationReturns /\ UNCHANGED <<retryVars, serverVars>>

SpecResolve == InitResolve /\ [][NextResolve]_vars

\* The tag operations on one task with every notes text and every tag name,
\* and filter_by_tag with every tag name, with every outcome of every
\* upstream call. Notes longer than MaxNotesLen are not tagged further.
InitTags == RetryInit /\ ServerQuiet /\ TagInit

TagArgs(tag) == [NoArgs EXCEPT !.id = "T1", !.tag = tag]

NextTags ==
    \/ \E name \in {"add_tag", "remove_tag"}, tag \in Tags :
          /\ Len(upTasks[1].notes) <= MaxNotesLen
          /\ TagOperationCalled(name, TagArgs(tag))
          /\ UNCHANGED <<retryVars, serverVars>>
    \/ \E tag \in Tags, ref \in {Absent, Id(1)} :
          ToolDispatched("filter_by_tag", [NoArgs EXCEPT !.taskListId = ref, !.tag = tag])
            /\ UNCHANGED <<retryVars, serverVars>>
    \/ \E ok \in BOOLEAN : UpstreamAnswers(ok) /\ UNCHANGED <<retryVars, serverVars>>
    \/ OperationReturns /\ UNCHANGED <<retryVars, serverVars>>

SpecTags == InitTags /\ [][NextTags]_vars

\* Two addTag calls in progress at once on the same task, with tag names
\* of letters, in every interleaving of their upstream calls
ConcurrentTags == {"h", "u"}

NextConcurrentTags ==
    \/ \E tag \in ConcurrentTags :
          TagOperationCalled("add_tag", TagArgs(tag)) /\ UNCHANGED <<retryVars, serverVars>>
    \/ OtherOperationTurn /\ UNCHANGED <<retryVars, serverVars>>
    \/ \E ok \in BOOLEAN : UpstreamAnswers(ok) /\ UNCHANGED <<retryVars, serverVars>>
    \/ OperationReturns /\ UNCHANGED <<retryVars, serverVars>>

SpecConcurrentTags == InitTags /\ [][NextConcurrentTags]_vars

----------------------------------------------------------------------------
(* Claims about withRetry and isRetryable *)

\* The retryable classes as the documentation lists them: the status is
\* response.status, or code when there is no response status.
DocStatus(error) == IF error.rstatus = Absent THEN error.code ELSE error.rstatus

DocRetryable(error) ==
    \/ DocStatus(error) \in {"401", "429", "500", "503"}
    \/ error.code \in {"ECONNRESET", "ETIMEDOUT"}

RetryFinished == rPc \in {"returned", "thrown"}

\* C1: with the default budget, a retryable first failure is followed by
\* exactly one more invocation of fn, made after one backoff wait; a
\* successful second invocation's value is what withRetry returns; fn is
\* never invoked more than twice.
C1_RetryOnce ==
    rBudget = DefaultRetries =>
        /\ rCalls <= 2
        /\ (RetryFinished /\ DocRetryable(rFirstErr)) => rCalls = 2
        /\ rCalls = 2 => rWaits = <<rDelay0>>
        /\ (rCalls = 2 /\ rPc = "returned") =>
               rOutcome = [kind |-> "returned", value |-> rLastVal, error |-> NoError]

C1_Witness ==
    /\ rBudget = DefaultRetries
    /\ rPc = "returned"
    /\ rCalls = 2
    /\ DocRetryable(rFirstErr)
    /\ rOutcome.value = rLastVal

\* C2 as stated: when the retry also fails, the error propagated is the one
\* the first invocation raised.
C2_OriginalErrorPropagated ==
    (rBudget = DefaultRetries /\ rPc = "thrown" /\ rCalls = 2) =>
        rOutcome.error = rFirstErr

\* C2 as amended: when the retry also fails, the error propagated is the one
\* the retry (the last invocation) raised, unchanged.
C2_LastErrorPropagated ==
    (rBudget = DefaultRetries /\ rPc = "thrown" /\ rCalls = 2) =>
        rOutcome = [kind |-> "thrown", value |-> NoValue, error |-> rLastErr]

C2_Witness ==
    /\ rBudget = DefaultRetries
    /\ rPc = "thrown"
    /\ rCalls = 2
    /\ rLastErr # rFirstErr
    /\ rOutcome.error = rLastErr

\* C3: a thrown value outside the retryable classes makes withRetry invoke
\* fn once, wait for no backoff and rethrow that same value.
C3_NonRetryableRethrown ==
    (rCalls >= 1 /\ rFirstErr # NoError /\ ~DocRetryable(rFirstErr)) =>
        /\ rCalls = 1
        /\ rWaits = <<>>
        /\ rPc = "thrown"
        /\ rOutcome = [kind |-> "thrown", value |-> NoValue, error |-> rFirstErr]

\* C4: an error value is classified retryable exactly when its status is
\* 401, 429, 500 or 503 or its code is ECONNRESET or ETIMEDOUT, and
\* non-retryable otherwise (values with properties: objects and primitives;
\* null and undefined are the case of C3).
C4_Classification ==
    (rClassified # "not asked" /\ ~IsNullish(rLastErr)) =>
        rClassified = IF DocRetryable(rLastErr) THEN "retryable" ELSE "non-retryable"

C4_Witness ==
    /\ rClassified = "non-retryable"
    /\ rLastErr.rstatus = "502"
    /\ rLastErr.code = "500"

----------------------------------------------------------------------------
(* Claims about the credential state and the tool-call handler *)

Is401(error) == error.rstatus = "401" \/ (error.rstatus = Absent /\ error.code = "401")

\* The step in which the upstream call of the tool call in slot c ends in error
UpstreamEndsIn401(c) ==
    /\ calls[c].pc = "upstream"
    /\ calls'[c].pc = "done"
    /\ Is401(calls'[c].error)

\* C5: whenever an upstream call made by a tool operation ends in a 401, the
\* credential state is reset to not-authenticated, so that the next
\* initializeAuth performs a fresh token exchange.
C5_ResetOn401 ==
    [][\A c \in CallIds : UpstreamEndsIn401(c) => ~isAuthenticated']_vars

\* Steps of initializeAuth, as seen on the caller in slot c
EntersHandler(c) == calls[c].pc = "free" /\ calls'[c].pc # "free" /\ calls'[c].tool # "server_info"
ReturnsFailure(c) ==
    /\ calls[c].pc \in {"free", "exchanging"}
    /\ calls'[c].pc = "done"
    /\ calls'[c].result = AuthRequired
PrewarmFails == phase # "listening" /\ phase' = "listening" /\ ~isAuthenticated'
SomeExchangeSucceeds ==
    \E k \in 1 .. MaxCreds : credExchange[k] = "pending" /\ credExchange'[k] = "ok"

\* C6: initializeAuth marks the state authenticated only in the step in
\* which a token exchange succeeds; a call that finds no credential source,
\* or whose exchange fails, returns failure and leaves the flag as it was; a
\* call made while the state is not authenticated constructs a credential and
\* starts an exchange of its own (or fails for want of a source); a call made
\* while the state is authenticated starts no exchange and does not fail.
C6_AuthenticatedOnlyAfterExchange ==
    /\ [][(~isAuthenticated /\ isAuthenticated') => SomeExchangeSucceeds]_vars
    /\ [][\A c \in CallIds : ReturnsFailure(c) => UNCHANGED isAuthenticated]_vars
    /\ [][PrewarmFails => UNCHANGED isAuthenticated]_vars
    /\ [][\A c \in CallIds : (EntersHandler(c) /\ ~isAuthenticated) =>
            \/ /\ credSource \in UsableSources
               /\ calls'[c].pc = "exchanging"
               /\ nCreds' = nCreds + 1
               /\ calls'[c].cred = nCreds'
               /\ credExchange'[nCreds'] = "pending"
            \/ /\ credSource \notin UsableSources
               /\ ReturnsFailure(c)
               /\ nCreds' = nCreds]_vars
    /\ [][\A c \in CallIds : (EntersHandler(c) /\ isAuthenticated) =>
            /\ nCreds' = nCreds
            /\ credExchange' = credExchange
            /\ calls'[c].pc # "exchanging"
            /\ calls'[c].result # AuthRequired]_vars

\* A first exchange failed, a later call exchanged again and succeeded, and a
\* call made after that went on to its operation without an exchange
C6_Witness ==
    /\ isAuthenticated
    /\ credExchange[1] = "failed"
    /\ credExchange[2] = "ok"
    /\ \E c \in CallIds : calls[c].pc = "upstream" /\ calls[c].cred = 0

----------------------------------------------------------------------------
(* Claims about the session multiplexer *)

SessionNotFoundJson == "404 Session not found. It may have expired."
SessionNotFoundText == "404 Session not found"

\* C7: on /mcp, a request whose session id is in no entry of the session
\* table gets the session-not-found error and creates no session and no
\* handler, whatever its method and payload.
C7_UnknownSessionRejected ==
    [][\A m \in HttpMethods, sid \in ClientSids, p \in Payloads :
         \A tool \in ToolsOf(p, SessionTools), accepted \in VerdictsOf(m, p) :
           (McpRequest(m, sid, p, tool, accepted, 1) /\ sid \notin DOMAIN streamableTransports)
             => /\ lastResp' = SessionNotFoundJson
                /\ UNCHANGED <<streamableTransports, transports, serverConn, nServers>>]_vars

\* C8: a POST /message whose session id is in no entry of the SSE session
\* table is answered 404 Session not found and changes neither session
\* table, nor the connection counters, nor the credential state.
C8_UnknownMessageRejected ==
    [][\A sid \in ClientSids \cup {Absent}, p \in Payloads :
         \A tool \in ToolsOf(p, SessionTools) :
           (PostMessage(sid, p, tool, 1) /\ sid \notin DOMAIN sseTransports)
             => /\ lastResp' = SessionNotFoundText
                /\ UNCHANGED <<sessionVars, authVars>>]_vars

LiveSids == DOMAIN sseTransports \cup DOMAIN streamableTransports

\* The entry of session id b is the same before and after the step, and
\* maps to the transport that carries b
EntryKept(b) ==
    /\ b \in DOMAIN sseTransports =>
          /\ b \in DOMAIN sseTransports'
          /\ sseTransports'[b] = sseTransports[b]
          /\ transports'[sseTransports'[b]].sessionId = b
    /\ b \in DOMAIN streamableTransports =>
          /\ b \in DOMAIN streamableTransports'
          /\ streamableTransports'[b] = streamableTransports[b]
          /\ transports'[streamableTransports'[b]].sessionId = b

EntryRemoved(a) ==
    \/ a \in DOMAIN sseTransports /\ a \notin DOMAIN sseTransports'
    \/ a \in DOMAIN streamableTransports /\ a \notin DOMAIN streamableTransports'

\* C9: for two distinct live sessions a and b, on the same or on different
\* bindings, the step that closes a removes a's entry only: b's entry is still
\* present and still maps to b's own transport.
C9_CloseRemovesOnlyOwnEntry ==
    [][\A a \in LiveSids, b \in LiveSids :
         (a # b /\ EntryRemoved(a)) => EntryKept(b)]_vars

\* One session was closed while another, on the other binding, stays live
C9_Witness ==
    \E t \in 1 .. Len(transports), b \in LiveSids :
        /\ ~transports[t].open
        /\ transports[t].sessionId # Absent
        /\ transports[t].sessionId \notin LiveSids
        /\ LET u == IF b \in DOMAIN sseTransports THEN sseTransports[b]
                    ELSE streamableTransports[b] IN
           /\ transports[u].open
           /\ transports[u].kind # transports[t].kind

HandlersOf(t) == {s \in 1 .. MaxTransports : t \in serverConn[s]}
LiveTransports ==
    {sseTransports[a] : a \in DOMAIN sseTransports}
        \cup {streamableTransports[a] : a \in DOMAIN streamableTransports}

\* C10: every session has one handler instance of its own, made by one
\* createServer call when the session is set up; no handler instance is
\* connected to more than one transport, and no two sessions share one.
C10_OneHandlerPerSession ==
    /\ nServers = Len(transports)
    /\ \A s \in 1 .. MaxTransports : Cardinality(serverConn[s]) <= 1
    /\ \A t \in LiveTransports : Cardinality(HandlersOf(t)) = 1
    /\ \A t \in LiveTransports, u \in LiveTransports :
          t # u => HandlersOf(t) \cap HandlersOf(u) = {}

\* Two live sessions, one on each binding, each with its own handler
C10_Witness ==
    \E a \in DOMAIN sseTransports, b \in DOMAIN streamableTransports :
        /\ HandlersOf(sseTransports[a]) # {}
        /\ HandlersOf(streamableTransports[b]) # {}
        /\ HandlersOf(sseTransports[a]) # HandlersOf(streamableTransports[b])

\* Session ids of the transports of a binding that have closed
ClosedSids(kind) ==
    {transports[t].sessionId :
        t \in {u \in 1 .. Len(transports) :
                 /\ ~transports[u].open
                 /\ transports[u].kind = kind
                 /\ transports[u].sessionId # Absent}}

\* C11: the step that closes a session's connection or transport removes its
\* entry from the session table, and every follow-up request that carries the
\* id of a closed session, on the binding of that session, is answered with
\* the session-not-found response.
C11_ClosedSessionNotFound ==
    [][/\ \A t \in 1 .. Len(transports) :
            (transports[t].open /\ ~transports'[t].open /\ transports[t].sessionId # Absent)
              => transports[t].sessionId
                    \notin (DOMAIN sseTransports' \cup DOMAIN streamableTransports')
       /\ \A m \in HttpMethods, sid \in ClosedSids("streamable"), p \in Payloads :
            \A tool \in ToolsOf(p, SessionTools), accepted \in VerdictsOf(m, p) :
              McpRequest(m, sid, p, tool, accepted, 1) => lastResp' = SessionNotFoundJson
       /\ \A sid \in ClosedSids("sse"), p \in Payloads :
            \A tool \in ToolsOf(p, SessionTools) :
              PostMessage(sid, p, tool, 1) => lastResp' = SessionNotFoundText]_vars

\* What POST /mcp with no session id and an initialize payload constructs:
\* one transport and one handler instance connected to it alone
C12_Constructed ==
    LET t == Len(transports) + 1 IN
    /\ Len(transports') = t
    /\ transports'[t].kind = "streamable" /\ transports'[t].open
    /\ nServers' = nServers + 1
    /\ serverConn'[nServers'] = {t}
    /\ serverConn[nServers'] = {}

\* The new transport is registered under the id generated for it, next to
\* the entries that were there
C12_Registered ==
    LET t == Len(transports) + 1
        sid == GenSid(t) IN
    /\ sid \notin DOMAIN streamableTransports
    /\ DOMAIN streamableTransports' = DOMAIN streamableTransports \cup {sid}
    /\ streamableTransports'[sid] = t
    /\ transports'[t].sessionId = sid
    /\ \A x \in DOMAIN streamableTransports : streamableTransports'[x] = streamableTransports[x]

\* Every request that carries the id of a table entry goes to the transport
\* of that entry, which carries that id and is open; the entry maps to the
\* same transport for as long as it is in the table
C12_Routed ==
    \A sid \in DOMAIN streamableTransports :
        LET t == streamableTransports[sid] IN
        /\ transports[t].sessionId = sid
        /\ transports[t].open
        /\ transports[t].kind = "streamable"
        /\ sid \in DOMAIN streamableTransports' => streamableTransports'[sid] = t
        /\ McpRequest("POST", sid, "tools/call", "server_info", TRUE, 1)
              => calls'[1].server = ServerOf(t)
        /\ \A m \in HttpMethods, p \in Payloads : \A tool \in ToolsOf(p, SessionTools) :
              McpRequest(m, sid, p, tool, TRUE, 1)
                => /\ lastResp' \notin {SessionNotFoundJson,
                        "400 Bad Request: missing session ID or not an initialize request"}
                   /\ Len(transports') = Len(transports)

\* C12 as stated: every POST /mcp with no session id and an initialize
\* payload constructs a transport and a handler and registers the transport
\* under the generated session id; later requests with that id go to it.
C12_InitializeEstablishesSession ==
    [][/\ \A accepted \in BOOLEAN :
            McpRequest("POST", Absent, "initialize", "none", accepted, 1)
              => C12_Constructed /\ C12_Registered
       /\ C12_Routed]_vars

\* C12: a POST /mcp with no session id and an initialize payload constructs
\* one new transport and one new handler instance connected to it; when the
\* transport accepts the request the transport is registered under the
\* generated session id, and when the transport rejects it no entry is
\* made; every later request carrying a registered id goes to the transport
\* of that entry until it closes.
C12_AcceptedInitializeEstablishesSession ==
    [][/\ \A accepted \in BOOLEAN :
            McpRequest("POST", Absent, "initialize", "none", accepted, 1)
              => /\ C12_Constructed
                 /\ IF accepted THEN C12_Registered
                    ELSE UNCHANGED <<streamableTransports, totalConnections, activeSessionCount>>
       /\ C12_Routed]_vars

\* A session was established and a tool call with its id reached its handler
C12_Witness ==
    /\ calls[1].pc = "done"
    /\ \E sid \in DOMAIN streamableTransports :
          /\ transports[streamableTransports[sid]].sessionId = sid
          /\ calls[1].server = ServerOf(streamableTransports[sid])

BadRequest == "400 Bad Request: missing session ID or not an initialize request"

\* C13: a request to /mcp with no session id whose payload is not an
\* initialize request is answered 400 Bad Request: missing session ID or not
\* an initialize request, and changes no session table, transport, handler,
\* counter or credential state.
C13_MissingSessionBadRequest ==
    [][\A m \in HttpMethods, p \in Payloads \ {"initialize"} :
         \A tool \in ToolsOf(p, SessionTools) :
           McpRequest(m, Absent, p, tool, TRUE, 1)
             => /\ lastResp' = BadRequest
                /\ UNCHANGED <<sessionVars, authVars, calls>>]_vars

\* The protocol error was sent while a session is live
C13_Witness ==
    /\ lastResp = BadRequest
    /\ DOMAIN streamableTransports # {}

----------------------------------------------------------------------------
(* Claims about the results of tool calls *)

\* C14: every tool call ends with a result object that has a text content
\* and an isError flag, and no call ends without one (an exception leaving
\* the handler): for every tool name, unknown ones included, and every
\* failure of authentication or of an upstream call.
C14_WellFormedResult ==
    \A c \in CallIds :
        /\ calls[c].pc \in {"free", "exchanging", "upstream", "done"}
        /\ calls[c].pc = "done" =>
              /\ calls[c].result # NoResult
              /\ calls[c].result.isError \in BOOLEAN
              /\ calls[c].result.text # "none"
              /\ calls[c].error = ToolNotFound => calls[c].result.isError
              /\ calls[c].result = AuthRequired => calls[c].error = NoError

\* A call of an unknown tool and a call whose upstream call failed have both
\* ended, after a call was refused for lack of credentials
C14_Witness ==
    \E c \in CallIds, d \in CallIds :
        /\ calls[c].pc = "done" /\ calls[c].tool = "no_such_tool"
        /\ calls[c].error = ToolNotFound
        /\ calls[d].pc = "done" /\ calls[d].error \in UpstreamFailures

----------------------------------------------------------------------------
(* Claims about the TaskActions operations *)

\* C15: when an upstream call made for a tool operation has ultimately
\* failed, the operation's result carries isError = true with a message; no
\* operation answers isError = false after one of its upstream calls failed.
C15_FailureReported ==
    (op.pc = "done" /\ op.failed)
        => op.result.isError /\ op.result.text # "none"

\* The field each operation requires
RequiredField(name) ==
    CASE name = "create" -> "title"
      [] name \in {"update", "delete"} -> "id"
      [] name = "search" -> "query"
      [] name = "create_task_list" -> "title"
      [] name = "filter_by_tag" -> "tag"
      [] OTHER -> "none"
LacksRequired(o) ==
    RequiredField(o.name) # "none" /\ o.args[RequiredField(o.name)] = Absent

\* C16: a tool call that lacks its required field ends with a failure
\* result and has made no request to the upstream task service at any point;
\* in particular no collection and no task is created for it.
C16_ValidationBeforeUpstream ==
    (op.pc # "idle" /\ LacksRequired(op))
        => /\ sent = <<>>
           /\ op.pc = "done"
           /\ op.result.isError

PatchFields == {"title", "notes", "status", "due"}
Supplied(args) == {k \in PatchFields : args[k] # Absent}
PatchesSent == {i \in 1 .. Len(sent) : sent[i].api = "tasks.patch"}

----------------------------------------------------------------------------
(* Claims about resolveTaskListId *)

\* resolveTaskListId has returned to the operation in progress
Resolved == op.pc \in {"tasks.clear", "done"} /\ op.listId # Absent
LifeHome == <<[id |-> Id(1), title |-> "Life"], [id |-> Id(2), title |-> "Home"]>>

\* C18: with an absent reference, or with the sentinel @default, resolve
\* returns the id of the first collection in the order upstream returned; on
\* [{L1, Life}, {L2, Home}] an absent reference gives L1.
C18_DefaultIsFirst ==
    (Resolved /\ op.args.taskListId \in {Absent, "@default"})
        => op.listId = upLists[1].id

\* The scenario, and the sentinel on a list that does not start with L1
C18_Witness ==
    /\ Resolved
    /\ \/ upLists = LifeHome /\ op.args.taskListId = Absent /\ op.listId = "L1"
       \/ /\ Len(upLists) = 2 /\ upLists[1].id = "L2"
          /\ op.args.taskListId = "@default" /\ op.listId = "L2"

ListIdsOf(ls) == {ls[i].id : i \in 1 .. Len(ls)}

\* Equality of two strings ignoring letter case
CaseClasses ==
    {{"home", "Home", "HOME"}, {"life", "Life"}, {"work", "Work"}}
        \cup {{Id(n), "l" \o ToString(n)} : n \in 1 .. MaxLists + 1}
EqualIgnoringCase(a, b) == a = b \/ \E C \in CaseClasses : a \in C /\ b \in C
NameMatches(ls, ref) ==
    {i \in 1 .. Len(ls) : ls[i].title # Absent /\ EqualIgnoringCase(ls[i].title, ref)}

\* C19: when the reference equals the id of a collection, resolve returns
\* that id, even if a collection placed earlier has a name equal to the
\* reference ignoring case; the id returned depends on the collection list
\* and the reference only.
C19_IdBeforeName ==
    Resolved =>
        /\ op.args.taskListId \in ListIdsOf(upLists) => op.listId = op.args.taskListId
        /\ op.listId = resolveTaskListId(upLists, op.args.taskListId).taskListId

\* The reference is the id of the second collection and, ignoring case, the
\* name of the first
C19_Witness ==
    /\ Resolved
    /\ Len(upLists) = 2
    /\ upLists[2].id = op.args.taskListId
    /\ 1 \in NameMatches(upLists, op.args.taskListId)
    /\ op.listId = upLists[2].id

\* C20: when the reference equals no collection id but equals the name of a
\* collection ignoring letter case, resolve returns the id of the first such
\* collection in upstream order; on [{L1, Life}, {L2, Home}] the reference
\* home gives L2.
C20_NameIgnoringCase ==
    LET ref == op.args.taskListId
        M == NameMatches(upLists, ref) IN
    (Resolved /\ ~Falsy(ref) /\ ref # "@default" /\ ref \notin ListIdsOf(upLists) /\ M # {})
        => \E i \in M : /\ \A j \in M : i <= j
                        /\ op.listId = upLists[i].id

\* The scenario, and two collections that share the name
C20_Witness ==
    /\ Resolved
    /\ \/ upLists = LifeHome /\ op.args.taskListId = "home" /\ op.listId = "L2"
       \/ /\ Len(upLists) = 2 /\ upLists[1].title = "Home" /\ upLists[2].title = "Home"
          /\ op.args.taskListId = "HOME" /\ op.listId = upLists[1].id /\ upLists[1].id = "L2"

NoCollections == ErrorResult("No task lists found in your Google Tasks account")

\* C21: on a non-empty collection list, a reference that equals no id and,
\* ignoring case, no name does not make resolve fail: it returns the first
\* collection; and whatever the reference, the id returned is the id of a
\* collection of the list just fetched.
C21_FailOpenToFirst ==
    LET ref == op.args.taskListId IN
    /\ Resolved => op.listId \in ListIdsOf(upLists)
    /\ (/\ op.name = "clear" /\ op.pc \in {"tasks.clear", "done"} /\ ~op.failed
        /\ Len(upLists) > 0
        /\ ~Falsy(ref) /\ ref # "@default"
        /\ ref \notin ListIdsOf(upLists) /\ NameMatches(upLists, ref) = {})
          => /\ op.listId = upLists[1].id
             /\ op.result # NoCollections

\* A reference that names nothing in a list of two collections, which has
\* been answered with the first
C21_Witness ==
    /\ Resolved
    /\ Len(upLists) = 2
    /\ op.args.taskListId = "Work"
    /\ op.listId = upLists[1].id
    /\ upLists[1].id = "L2"

\* C22: when upstream returns an empty collection list, resolve fails with
\* the no-collections error for every reference and returns no collection
\* id: the operation sends nothing after tasklists.list.
C22_EmptyListFails ==
    (op.name = "clear" /\ Len(upLists) = 0 /\ op.pc \notin {"idle", "tasklists.list"})
        => /\ op.pc = "done"
           /\ op.listId = Absent
           /\ Len(sent) = 1
           /\ ~op.failed => op.result = NoCollections

\* The no-collections error was the answer to a reference that is an id
C22_Witness ==
    /\ Len(upLists) = 0
    /\ op.pc = "done" /\ ~op.failed
    /\ op.args.taskListId = "L1"
    /\ op.result = NoCollections

----------------------------------------------------------------------------
(* Claims about the tag operations *)

\* The text [tag] as the contract reads it: the literal characters, letters
\* in either case
Letters == {{"h", "H"}, {"u", "U"}, {"x", "X"}}
SameLetter(a, b) == a = b \/ \E L \in Letters : a \in L /\ b \in L
OccursAt(s, i, tag) ==
    LET t == TagStr(tag) IN
    /\ i + Len(t) - 1 <= Len(s)
    /\ \A k \in 1 .. Len(t) : SameLetter(s[i + k - 1], t[k])
HasTag(s, tag) == \E i \in 1 .. Len(s) : OccursAt(s, i, tag)

\* The notes of the task the tag operations are called on
CurrentNotes == upTasks[1].notes

\* The step in which addTag or removeTag has the task and decides
TagDecided(name) ==
    /\ op.name = name /\ op.pc = "tasks.get"
    /\ op'.pc # "tasks.get" /\ ~op'.failed

\* The decision is to write; the notes it writes
Writes == op'.pc = "tasks.patch"
WrittenBody == sent'[Len(sent')].body
Answers == op'.pc = "done" /\ ~op'.result.isError /\ sent' = sent

\* C23: add_tag is idempotent: the notes it writes are notes on which a
\* second add_tag of the same tag writes nothing, and when [T] is already in
\* the notes, in any letter case, it reports success without upstream write.
C23_AddTagIdempotent ==
    [][/\ (TagDecided("add_tag") /\ Writes)
            => ~AddTag(WrittenBody["notes"], op.args.tag).write
       /\ (TagDecided("add_tag") /\ HasTag(CurrentNotes, op.args.tag))
            => Answers]_vars

\* Lines of a text, and the text up to leading, trailing and blank-line
\* whitespace: its lines without the blanks around them, the empty ones left
\* out
RECURSIVE SplitLines(_, _)
SplitLines(s, line) ==
    IF Len(s) = 0 THEN <<line>>
    ELSE IF Head(s) = NL THEN <<line>> \o SplitLines(Tail(s), <<>>)
    ELSE SplitLines(Tail(s), Append(line, Head(s)))
RECURSIVE Trim(_)
Trim(l) ==
    IF Len(l) > 0 /\ l[1] = SP THEN Trim(Tail(l))
    ELSE IF Len(l) > 0 /\ l[Len(l)] = SP THEN Trim(SubSeq(l, 1, Len(l) - 1))
    ELSE l
Normalized(s) ==
    LET lines == SplitLines(s, <<>>) IN
    SelectSeq([i \in 1 .. Len(lines) |-> Trim(lines[i])], LAMBDA l : Len(l) > 0)

\* C24: removing T from what adding T to N left gives notes equivalent to N
\* up to leading, trailing and blank-line whitespace, for all N and T.
C24_AddThenRemove ==
    [][TagDecided("add_tag")
         => LET added == IF Writes THEN WrittenBody["notes"] ELSE CurrentNotes
                removed == RemoveTag(added, op.args.tag) IN
            /\ ~op'.result.isError
            /\ ~removed.threw
            /\ Normalized(removed.notes) = Normalized(CurrentNotes)]_vars

\* Tag names with a character that is special in a pattern
SpecialTags == {"h+", ".", "("}

\* The tasks _list returned whose title or notes contain [tag]
TaggedIds(got, tag) ==
    LET kept == SelectSeq(got, LAMBDA t : HasTag(t.notes, tag) \/ HasTag(t.title, tag)) IN
    [i \in 1 .. Len(kept) |-> kept[i].id]

\* The step in which filterByTag has the tasks and filters
FilterDecided == op.name = "filter_by_tag" /\ op.pc = "tasks.list" /\ op'.pc = "done"

\* C25: a tag name with characters that are special in the pattern matches
\* only the exact text [name] in add_tag, remove_tag and filter_by_tag, and
\* does not make the operation fail.
C25_TagsMatchLiterally ==
    [][op.args.tag \in SpecialTags
         => /\ TagDecided("add_tag")
                 => ~op'.result.isError /\ (Writes <=> ~HasTag(CurrentNotes, op.args.tag))
            /\ TagDecided("remove_tag")
                 => ~op'.result.isError /\ (Writes <=> HasTag(CurrentNotes, op.args.tag))
            /\ FilterDecided
                 => ~op'.result.isError /\ op'.matched = TaggedIds(op'.got, op.args.tag)]_vars

HasEmptyLine(s) == \E i \in 1 .. Len(s) - 1 : s[i] = NL /\ s[i + 1] = NL
\* A text without the occurrences of [tag], and without white space
RECURSIVE WithoutTag(_, _)
WithoutTag(s, tag) ==
    IF Len(s) = 0 THEN <<>>
    ELSE IF OccursAt(s, 1, tag)
    THEN WithoutTag(SubSeq(s, Len(TagStr(tag)) + 1, Len(s)), tag)
    ELSE <<Head(s)>> \o WithoutTag(Tail(s), tag)
Squeezed(s) == SelectSeq(s, LAMBDA c : c \notin WhiteSpace)
BuyMilkHomeUrgent == <<"x", NL, "[", "H", "]", NL, "[", "u", "]">>
BuyMilkUrgent == <<"x", NL, "[", "u", "]">>

\* C26: when the notes contain the tag, remove_tag writes notes without any
\* occurrence of [tag] in any letter case, without leading or trailing blank
\* line, without an empty line where tags stood, and with the remaining text
\* and tags in their order; Home removed from "Buy milk\n[Home]\n[Urgent]"
\* leaves "Buy milk\n[Urgent]".
C26_RemoveTagCleans ==
    [][(TagDecided("remove_tag") /\ HasTag(CurrentNotes, op.args.tag))
         => /\ Writes
            /\ LET n == WrittenBody["notes"] IN
               /\ ~HasTag(n, op.args.tag)
               /\ Len(n) > 0 => n[1] # NL /\ n[Len(n)] # NL
               /\ ~HasEmptyLine(CurrentNotes) => ~HasEmptyLine(n)
               /\ Squeezed(n) = Squeezed(WithoutTag(CurrentNotes, op.args.tag))
               /\ CurrentNotes = BuyMilkHomeUrgent /\ op.args.tag \in {"h", "H"}
                    => n = BuyMilkUrgent]_vars

\* C27: remove_tag on notes that do not contain [T] reports success and
\* performs no upstream write.
C27_RemoveAbsentTag ==
    [][(TagDecided("remove_tag") /\ ~HasTag(CurrentNotes, op.args.tag)) => Answers]_vars

\* C28: when [T] is absent from the notes, add_tag writes the old notes, a
\* newline and [T], or [T] alone when the old notes are empty, and patches
\* no field other than notes.
C28_AddAbsentTag ==
    [][(TagDecided("add_tag") /\ ~HasTag(CurrentNotes, op.args.tag))
         => /\ Writes
            /\ DOMAIN WrittenBody \ {"id"} = {"notes"}
            /\ WrittenBody["notes"] = IF Len(CurrentNotes) = 0 THEN TagStr(op.args.tag)
                                      ELSE CurrentNotes \o <<NL>> \o TagStr(op.args.tag)]_vars

\* C29: filter_by_tag returns exactly the tasks, among those listed, whose
\* title or notes contain [tag] ignoring letter case.
C29_FilterExact ==
    (/\ op.name = "filter_by_tag" /\ op.pc = "done"
     /\ Len(sent) > 0 /\ sent[Len(sent)].api = "tasks.list")
        => /\ ~op.result.isError
           /\ op.matched = TaggedIds(op.got, op.args.tag)

----------------------------------------------------------------------------
(* Claims about the operation catalog *)

\* README, Available Tools (14)
PublishedCatalog ==
    {"list", "list_summary", "search", "create", "update", "delete", "clear",
     "list_task_lists", "create_task_list", "filter_by_tag", "due_soon", "add_tag",
     "remove_tag", "server_info"}

\* C30: every operation of the published catalog is in the list tools/list
\* answers (TOOL_DEFINITIONS, the same constant for every handler instance)
\* and, when called, is dispatched to its operation and not answered with
\* Tool not found.
C30_CatalogDispatched ==
    \A c \in CallIds :
        (calls[c].pc = "done" /\ calls[c].tool \in PublishedCatalog)
            => /\ calls[c].tool \in TOOL_DEFINITIONS
               /\ calls[c].error # ToolNotFound

----------------------------------------------------------------------------
(* Claims about diagnostics, startup and concurrency *)

\* A tools/call for the diagnostic tool reaches the handler, in slot c
ServerInfoCalled(c) ==
    calls[c].pc = "free" /\ calls'[c].pc # "free" /\ calls'[c].tool = "server_info"

\* C31: the diagnostics are read-only: neither GET /health nor the
\* server_info tool changes a session table, a connection counter or the
\* credential state, and server_info answers with isError = false without
\* attempting authentication, whatever the credential state.
C31_DiagnosticsReadOnly ==
    [][/\ Health => UNCHANGED <<authVars, sessionVars>>
       /\ \A c \in CallIds :
             ServerInfoCalled(c)
                => /\ UNCHANGED <<authVars, sessionVars>>
                   /\ calls'[c].pc = "done"
                   /\ ~calls'[c].result.isError]_vars

\* server_info was answered while the state is not authenticated and a
\* session is live
C31_Witness ==
    /\ ~isAuthenticated
    /\ activeSessionCount > 0
    /\ \E c \in CallIds :
          /\ calls[c].tool = "server_info" /\ calls[c].pc = "done"
          /\ ~calls[c].result.isError

\* The session of a call: the transport its handler instance is connected to
SessionOpen(c) == \A t \in serverConn[calls[c].server] : transports[t].open

\* C32: once a session's table entry has been removed on close, no request
\* is still in process on it: no call that is suspended in the handler (in
\* the token exchange) or in an upstream call belongs to a closed session.
C32_NoCallOnClosedSession ==
    \A c \in CallIds :
        calls[c].pc \in {"exchanging", "upstream"} => SessionOpen(c)

\* The token exchanges in flight: the credential objects whose
\* getAccessToken() has been called and has not settled
ExchangesInFlight == {k \in 1 .. MaxCreds : credExchange[k] = "pending"}

\* C33: at most one token exchange is in flight at any time: concurrent
\* callers of initializeAuth that find the state not authenticated do not
\* each start their own exchange.
C33_OneExchangeInFlight == Cardinality(ExchangesInFlight) <= 1

\* C34: under every interleaving of concurrent initializeAuth calls,
\* whenever the state is authenticated the installed upstream client is bound
\* to a credential object whose own token exchange has completed
\* successfully, never to one whose exchange failed or has not finished.
C34_ClientBoundToExchangedCredential ==
    isAuthenticated => tasks # 0 /\ credExchange[tasks] = "ok"

\* A call whose handling has started and has not produced its response
InHandling(c) == calls[c].pc \in {"exchanging", "upstream"}

\* C35: within one session requests are handled one at a time: no two
\* requests of the same session (the same handler instance) are in handling
\* at once.
C35_OneRequestPerSession ==
    \A c \in CallIds, d \in CallIds :
        (c # d /\ InHandling(c) /\ InHandling(d)) => calls[c].server # calls[d].server

\* Nothing has been served: no transport, no call, no response
NothingServed ==
    /\ transports = <<>>
    /\ lastResp = "none"
    /\ \A c \in CallIds : calls[c].pc = "free"

\* C36: the server accepts connections only after the eager authentication
\* attempt has finished; a failed attempt (or none, for want of a credential
\* source) does not prevent it from starting, and the first request that
\* needs the upstream then attempts authentication again.
C36_ListenAfterPrewarm ==
    /\ [][phase # "listening" => (NothingServed /\ NothingServed')]_vars
    /\ [][(phase # "listening" /\ phase' = "listening") => ExchangesInFlight' = {}]_vars
    /\ [][(phase = "prewarming" /\ credExchange' # credExchange) => phase' = "listening"]_vars
    /\ [][(phase = "starting" /\ phase' # phase /\ credSource \notin UsableSources)
            => phase' = "listening"]_vars
    /\ [][\A c \in CallIds :
            (EntersHandler(c) /\ ~isAuthenticated /\ credSource \in UsableSources)
                => /\ calls'[c].pc = "exchanging"
                   /\ credExchange'[calls'[c].cred] = "pending"
                   /\ calls'[c].cred > nCreds]_vars

\* The eager attempt failed, the server listens, and a request handles its
\* call by a new token exchange
C36_Witness ==
    /\ phase = "listening"
    /\ credExchange[1] = "failed"
    /\ \E c \in CallIds : calls[c].pc = "exchanging" /\ credExchange[calls[c].cred] = "pending"

RECURSIVE Pow2(_)
Pow2(k) == IF k = 0 THEN 1 ELSE 2 * Pow2(k - 1)

\* The backoff waits so far are d, 2d, 4d, ...
WaitsDouble == \A k \in 1 .. Len(rWaits) : rWaits[k] = rDelay0 * Pow2(k - 1)
\* No retry is made with a budget n <= 0
NoRetryWithoutBudget == rBudget <= 0 => (rWaits = <<>> /\ rCalls <= 1)
RetryRunning == rPc \in {"calling", "waiting"}

\* C37 as stated: fn is invoked at most n + 1 times, for every budget n;
\* the k-th retry follows a wait of d * 2^(k-1); no retry is made when
\* n <= 0; the call terminates whenever every invocation of fn does.
C37_AtMostBudgetPlusOne ==
    /\ [](rCalls <= rBudget + 1)
    /\ [](WaitsDouble /\ NoRetryWithoutBudget)
    /\ (RetryRunning ~> RetryFinished)

\* C37, amended: fn is invoked at most max(n, 0) + 1 times (once even when
\* the budget is negative), with at most max(n, 0) waits; the k-th retry
\* follows a wait of d * 2^(k-1); no retry is made when n <= 0; the call
\* terminates whenever every invocation of fn does.
C37_BoundedRetries ==
    /\ [](rCalls <= (IF rBudget > 0 THEN rBudget ELSE 0) + 1)
    /\ [](Len(rWaits) <= (IF rBudget > 0 THEN rBudget ELSE 0))
    /\ [](WaitsDouble /\ NoRetryWithoutBudget)
    /\ (RetryRunning ~> RetryFinished)

\* A call with budget 2 and delay 250 ended after three invocations of fn
\* and waits of 250 and 500
C37_Witness ==
    /\ RetryFinished
    /\ rBudget = 2 /\ rDelay0 = 250
    /\ rCalls = 3
    /\ rWaits = <<250, 500>>

\* Object.keys(table).length
Entries(table) == Cardinality(DOMAIN table)

\* C38: activeSessionCount equals the number of entries of the SSE table
\* plus the number of the StreamableHTTP table, is never negative and never
\* exceeds totalConnections, and totalConnections never decreases.
C38_CountersMatchTables ==
    /\ [](/\ activeSessionCount = Entries(sseTransports) + Entries(streamableTransports)
          /\ activeSessionCount >= 0
          /\ activeSessionCount <= totalConnections)
    /\ [][totalConnections' >= totalConnections]_vars

\* Two sessions were established, one on each binding, and one was closed
C38_Witness ==
    /\ totalConnections = 2
    /\ activeSessionCount = 1
    /\ Entries(sseTransports) + Entries(streamableTransports) = 1
    /\ \E t \in 1 .. Len(transports), u \in 1 .. Len(transports) :
          transports[t].kind = "sse" /\ transports[u].kind = "streamable"

\* addTag answered that it added the tag or that the tag exists
ReportsSuccess(o) == o.name = "add_tag" /\ o.pc = "done" /\ ~o.result.isError

\* C39: when two add_tag operations with different tags run concurrently on
\* the same task and both report success, the notes contain both tags.
C39_BothTagsKept ==
    (/\ ReportsSuccess(op) /\ ReportsSuccess(other.op)
     /\ op.args.tag # other.op.args.tag)
        => /\ HasTag(CurrentNotes, op.args.tag)
           /\ HasTag(CurrentNotes, other.op.args.tag)

\* What the account held before the create call: the task T1 when it had a
\* collection, and no collection titled My Tasks
TasksBefore == IF \E i \in 1 .. Len(upLists) : upLists[i].title = "Life" THEN 1 ELSE 0
DefaultCollections == {i \in 1 .. Len(upLists) : upLists[i].title = "My Tasks"}

\* C40: one create call adds at most one task upstream, and at most one
\* default collection, under every pattern of transient failures, a failure
\* reported after upstream applied the insert included.
C40_CreateAddsAtMostOne ==
    /\ Len(upTasks) <= TasksBefore + 1
    /\ Cardinality(DefaultCollections) <= 1

====
